---- MODULE Spec2Model ----
(***************************************************************************)
(* A model of the data-acquisition layer of the vehicle defect tool:       *)
(*   - DiskCache (vehicle_defect_mvp/cache.py): one JSON file per key,     *)
(*     expiry decided at read time;                                        *)
(*   - the remote client (slp_mvp/nhtsa.py): get_json with its tenacity    *)
(*     retry policy, decode_vin and the per-vehicle fetches;               *)
(*   - the analysis run of app.py with its fallback loop over model names. *)
(* Time is counted in ticks of half a second, the retry policy's unit.     *)
(***************************************************************************)
EXTENDS Integers, Sequences, FiniteSets, TLC

(***************************************************************************)
(* Bounds of the model.                                                    *)
(***************************************************************************)
\* The clock stops advancing at MaxTime ticks.
MaxTime == 3

\* A session sees at most MaxRuns analysis runs.
MaxRuns == 2

\* The pool of an enrichment has at most MaxWorkers workers, and at most
\* MaxBatches enrichments are run.
MaxWorkers == 2
MaxBatches == 2

\* Under fairness the first MaxLiveBatches enrichments are followed.
MaxLiveBatches == 1

\* MaxThreads threads use the cache directory at the same time.
MaxThreads == 2

\* A padded VIN argument has MaxPad blanks around it.
MaxPad == 1

(***************************************************************************)
(* Python / JSON values.  A value is a record [t, v]: t is the kind and v  *)
(* the payload.  Python's None is JSON's null.  A dict is a sequence of    *)
(* <<key, value>> pairs in insertion order.                                *)
(***************************************************************************)
Null == [t |-> "null", v |-> 0]
Bool(b) == [t |-> "bool", v |-> b]
Num(n) == [t |-> "num", v |-> n]
Str(s) == [t |-> "str", v |-> s]
Arr(xs) == [t |-> "arr", v |-> xs]
Obj(ps) == [t |-> "obj", v |-> ps]

\* dict.get(key, default): the value of the last pair with that key.
RECURSIVE PairsGet(_, _, _)
PairsGet(ps, key, default) ==
  IF ps = <<>> THEN default
  ELSE LET last == ps[Len(ps)]
       IN IF last[1] = key THEN last[2]
          ELSE PairsGet(SubSeq(ps, 1, Len(ps) - 1), key, default)

DictGet(d, key, default) == PairsGet(d.v, key, default)

\* Python truthiness of a value (`x or y`, `if not x`).
Truthy(x) ==
  CASE x.t = "null" -> FALSE
    [] x.t = "bool" -> x.v
    [] x.t = "num" -> x.v # 0
    [] x.t = "str" -> x.v # ""
    [] OTHER -> x.v # <<>>

(***************************************************************************)
(* json.dumps / json.loads.  The text of a file is a sequence of tokens.   *)
(***************************************************************************)
Punct(c) == [t |-> "punct", v |-> c]
Lit(w) == [t |-> "lit", v |-> w]

IsPunct(tok, c) == tok.t = "punct" /\ tok.v = c

RECURSIVE JsonDumps(_)
RECURSIVE DumpElems(_)
RECURSIVE DumpPairs(_)
DumpElems(xs) ==
  IF xs = <<>> THEN <<>>
  ELSE JsonDumps(Head(xs))
       \o (IF Len(xs) > 1 THEN <<Punct(",")>> ELSE <<>>)
       \o DumpElems(Tail(xs))

DumpPairs(ps) ==
  IF ps = <<>> THEN <<>>
  ELSE <<Str(Head(ps)[1]), Punct(":")>> \o JsonDumps(Head(ps)[2])
       \o (IF Len(ps) > 1 THEN <<Punct(",")>> ELSE <<>>)
       \o DumpPairs(Tail(ps))

JsonDumps(x) ==
  CASE x.t = "null" -> <<Lit("null")>>
    [] x.t = "bool" -> <<Lit(IF x.v THEN "true" ELSE "false")>>
    [] x.t = "num" -> <<x>>
    [] x.t = "str" -> <<x>>
    [] x.t = "arr" -> <<Punct("[")>> \o DumpElems(x.v) \o <<Punct("]")>>
    [] OTHER -> <<Punct("{")>> \o DumpPairs(x.v) \o <<Punct("}")>>

\* The parser answers [ok, val, next]: next is the position after the value.
ParseFail == [ok |-> FALSE, val |-> Null, next |-> 0]
Parsed(x, n) == [ok |-> TRUE, val |-> x, next |-> n]

RECURSIVE ParseValue(_, _)
RECURSIVE ParseElems(_, _, _)
RECURSIVE ParsePairs(_, _, _)
\* After "[" or a ",": one element, then "," or "]".
ParseElems(toks, i, acc) ==
  LET e == ParseValue(toks, i)
  IN IF ~e.ok \/ e.next > Len(toks) THEN ParseFail
     ELSE IF IsPunct(toks[e.next], "]")
            THEN Parsed(Arr(Append(acc, e.val)), e.next + 1)
     ELSE IF IsPunct(toks[e.next], ",")
            THEN ParseElems(toks, e.next + 1, Append(acc, e.val))
     ELSE ParseFail

\* After "{" or a ",": a string key, ":", a value, then "," or "}".
ParsePairs(toks, i, acc) ==
  IF i + 1 > Len(toks) \/ toks[i].t # "str" \/ ~IsPunct(toks[i + 1], ":")
    THEN ParseFail
  ELSE LET e == ParseValue(toks, i + 2)
       IN IF ~e.ok \/ e.next > Len(toks) THEN ParseFail
          ELSE IF IsPunct(toks[e.next], "}")
                 THEN Parsed(Obj(Append(acc, <<toks[i].v, e.val>>)), e.next + 1)
          ELSE IF IsPunct(toks[e.next], ",")
                 THEN ParsePairs(toks, e.next + 1, Append(acc, <<toks[i].v, e.val>>))
          ELSE ParseFail

ParseValue(toks, i) ==
  IF i > Len(toks) THEN ParseFail
  ELSE LET tok == toks[i]
       IN CASE tok.t = "lit" ->
                 (CASE tok.v = "null" -> Parsed(Null, i + 1)
                    [] tok.v = "true" -> Parsed(Bool(TRUE), i + 1)
                    [] tok.v = "false" -> Parsed(Bool(FALSE), i + 1)
                    [] OTHER -> ParseFail)
            [] tok.t = "num" -> Parsed(tok, i + 1)
            [] tok.t = "str" -> Parsed(tok, i + 1)
            [] IsPunct(tok, "[") ->
                 IF i + 1 <= Len(toks) /\ IsPunct(toks[i + 1], "]")
                   THEN Parsed(Arr(<<>>), i + 2)
                   ELSE ParseElems(toks, i + 1, <<>>)
            [] IsPunct(tok, "{") ->
                 IF i + 1 <= Len(toks) /\ IsPunct(toks[i + 1], "}")
                   THEN Parsed(Obj(<<>>), i + 2)
                   ELSE ParsePairs(toks, i + 1, <<>>)
            [] OTHER -> ParseFail

\* json.loads: one value and nothing after it, or a decode error (ok = FALSE).
JsonLoads(toks) ==
  LET r == ParseValue(toks, 1)
  IN IF r.ok /\ r.next = Len(toks) + 1 THEN r ELSE ParseFail

(***************************************************************************)
(* Python strings: a string is a sequence of one-character strings.        *)
(***************************************************************************)
\* The characters of the model, in code point order.
Chars == <<" ", "+", ",", "-", "/", "0", "1", "2", "3", "4", "5", "6", "7", "8", "9",
           "A", "B", "C", "D", "E", "F", "G", "H", "I", "J", "K", "L", "M",
           "N", "O", "P", "Q", "R", "S", "T", "U", "V", "W", "X", "Y", "Z",
           "a", "b", "c", "d", "e", "f", "g", "h", "i", "j", "k", "l", "m",
           "n", "o", "p", "q", "r", "s", "t", "u", "v", "w", "x", "y", "z", "|">>

OrdTable ==
  [c \in {Chars[i] : i \in 1..Len(Chars)} |->
     CHOOSE i \in 1..Len(Chars) : Chars[i] = c]
Ord(c) == OrdTable[c]

IsSpace(c) == c = " "
IsDigit(c) == Ord(c) >= Ord("0") /\ Ord(c) <= Ord("9")
IsUpper(c) == Ord(c) >= Ord("A") /\ Ord(c) <= Ord("Z")
IsLower(c) == Ord(c) >= Ord("a") /\ Ord(c) <= Ord("z")

LowerChar(c) == IF IsUpper(c) THEN Chars[Ord(c) + (Ord("a") - Ord("A"))] ELSE c
UpperChar(c) == IF IsLower(c) THEN Chars[Ord(c) - (Ord("a") - Ord("A"))] ELSE c

\* str.lower(), str.upper()
Lower(s) == [i \in 1..Len(s) |-> LowerChar(s[i])]
Upper(s) == [i \in 1..Len(s) |-> UpperChar(s[i])]

\* str.strip(): leading and trailing whitespace removed.
RECURSIVE LStrip(_)
LStrip(s) == IF s # <<>> /\ IsSpace(Head(s)) THEN LStrip(Tail(s)) ELSE s

RECURSIVE RStrip(_)
RStrip(s) ==
  IF s # <<>> /\ IsSpace(s[Len(s)]) THEN RStrip(SubSeq(s, 1, Len(s) - 1)) ELSE s

Strip(s) == RStrip(LStrip(s))

\* urllib.parse.quote_plus: a space becomes "+", letters, digits and "-" stay,
\* every other character is percent-escaped.
RECURSIVE QuotePlus(_)
QuotePlus(s) ==
  IF s = <<>> THEN <<>>
  ELSE (IF IsSpace(Head(s)) THEN <<"+">>
        ELSE IF IsDigit(Head(s)) \/ IsUpper(Head(s)) \/ IsLower(Head(s))
                \/ Head(s) = "-" THEN <<Head(s)>>
        ELSE <<"%", Head(s)>>) \o QuotePlus(Tail(s))

\* n copies of the character c.
Rep(c, n) == [i \in 1..n |-> c]

(***************************************************************************)
(* The model resolver (_candidate_models).                                 *)
(***************************************************************************)
\* re.sub(r"[^a-z0-9]+", "", (s or "").lower())
Normalize(s) == SelectSeq(Lower(s), LAMBDA c : IsLower(c) \/ IsDigit(c))

\* sub in s
Contains(sub, s) ==
  \E i \in 0..(Len(s) - Len(sub)) : SubSeq(s, i + 1, i + Len(sub)) = sub

\* s.startswith(prefix)
StartsWith(s, prefix) ==
  Len(prefix) <= Len(s) /\ SubSeq(s, 1, Len(prefix)) = prefix

\* (s.lower().split() or [""])[0]
RECURSIVE UntilSpace(_)
UntilSpace(s) ==
  IF s = <<>> \/ IsSpace(Head(s)) THEN <<>> ELSE <<Head(s)>> \o UntilSpace(Tail(s))
FirstToken(s) == UntilSpace(LStrip(Lower(s)))

\* re.search(r"\d+", s): the first run of digits, "" when there is none.
RECURSIVE DigitsAtStart(_)
DigitsAtStart(s) ==
  IF s = <<>> \/ ~IsDigit(Head(s)) THEN <<>> ELSE <<Head(s)>> \o DigitsAtStart(Tail(s))
RECURSIVE DigitRun(_)
DigitRun(s) ==
  IF s = <<>> THEN <<>>
  ELSE IF IsDigit(Head(s)) THEN DigitsAtStart(s) ELSE DigitRun(Tail(s))

\* re.search(r"\d", s): the first digit, "" when there is none.
FirstDigit(s) == IF DigitRun(s) = <<>> THEN <<>> ELSE <<Head(DigitRun(s))>>

\* a < b for Python strings (code-point order).
RECURSIVE StrLess(_, _)
StrLess(a, b) ==
  IF b = <<>> THEN FALSE
  ELSE IF a = <<>> THEN TRUE
  ELSE IF Head(a) = Head(b) THEN StrLess(Tail(a), Tail(b))
  ELSE Ord(Head(a)) < Ord(Head(b))

\* The score without the bonus for the leading digit.
Score_NoLeadingDigit(m, model) ==
  LET nm == Normalize(m)
      norm_model == Normalize(model)
      tok_model == FirstToken(model)
      tok_m == FirstToken(m)
      digit_run == DigitRun(model)
      has_digits == digit_run # <<>>
      series == <<"s", "e", "r", "i", "e", "s">>
  IN (IF nm = norm_model THEN 10 ELSE 0)
       + (IF Contains(norm_model, nm) THEN 6 ELSE 0)
       + (IF Contains(nm, norm_model) THEN 2 ELSE 0)
       + (IF tok_model # <<>> /\ tok_m # <<>> /\ tok_model = tok_m THEN 2 ELSE 0)
       + (IF has_digits /\ Contains(series, nm) THEN 5 ELSE 0)
       + (IF has_digits /\ Contains(digit_run, nm) THEN 3 ELSE 0)

\* The score in which a name equal to the requested model after
\* normalization earns nothing for being similar.
Score_ExactUnrewarded(m, model) ==
  LET nm == Normalize(m)
      norm_model == Normalize(model)
      tok_model == FirstToken(model)
      tok_m == FirstToken(m)
      first_digit == FirstDigit(model)
      digit_run == DigitRun(model)
      has_digits == first_digit # <<>>
      series == <<"s", "e", "r", "i", "e", "s">>
  IN (IF nm = norm_model THEN 0
      ELSE (IF Contains(norm_model, nm) THEN 6 ELSE 0)
             + (IF Contains(nm, norm_model) THEN 2 ELSE 0))
       + (IF tok_model # <<>> /\ tok_m # <<>> /\ tok_model = tok_m THEN 2 ELSE 0)
       + (IF has_digits /\ Contains(series, nm) THEN 5 ELSE 0)
       + (IF has_digits /\ StartsWith(nm, first_digit) THEN 5 ELSE 0)
       + (IF has_digits /\ Contains(digit_run, nm) THEN 3 ELSE 0)

\* The score of the vPIC name m for the requested model (lines 168-190).
Score(m, model) ==
  LET nm == Normalize(m)
      norm_model == Normalize(model)
      tok_model == FirstToken(model)
      tok_m == FirstToken(m)
      first_digit == FirstDigit(model)
      digit_run == DigitRun(model)
      has_digits == first_digit # <<>>
      series == <<"s", "e", "r", "i", "e", "s">>
  IN (IF nm = norm_model THEN 10 ELSE 0)
       + (IF Contains(norm_model, nm) THEN 6 ELSE 0)
       + (IF Contains(nm, norm_model) THEN 2 ELSE 0)
       + (IF tok_model # <<>> /\ tok_m # <<>> /\ tok_model = tok_m THEN 2 ELSE 0)
       + (IF has_digits /\ Contains(series, nm) THEN 5 ELSE 0)
       + (IF has_digits /\ first_digit # <<>> /\ StartsWith(nm, first_digit)
            THEN 5 ELSE 0)
       + (IF has_digits /\ digit_run # <<>> /\ Contains(digit_run, nm)
            THEN 3 ELSE 0)

\* scored.sort(key=lambda x: (-x[0], x[1])), over pairs <<score, name>>.
Before(x, y) == x[1] > y[1] \/ (x[1] = y[1] /\ StrLess(x[2], y[2]))
RECURSIVE SortScored(_)
SortScored(set) ==
  IF set = {} THEN <<>>
  ELSE LET first == CHOOSE x \in set : \A y \in set \ {x} : Before(x, y)
       IN <<first>> \o SortScored(set \ {first})

\* len(out) at which the resolver stops collecting.
CandidateCap == 6

\* The collection that keeps a name already seen in another case.
RECURSIVE Collect_KeepsCaseDuplicates(_, _, _)
Collect_KeepsCaseDuplicates(scored, out, seen) ==
  IF scored = <<>> \/ Len(out) >= 6 THEN out
  ELSE Collect_KeepsCaseDuplicates(Tail(scored), Append(out, Head(scored)[2]), seen)

\* Lines 197-205: names already seen ignoring case are dropped, at most
\* CandidateCap names are kept.
RECURSIVE Collect(_, _, _)
Collect(scored, out, seen) ==
  IF scored = <<>> \/ Len(out) >= CandidateCap THEN out
  ELSE LET m == Head(scored)[2]
       IN IF Lower(m) \in seen THEN Collect(Tail(scored), out, seen)
          ELSE Collect(Tail(scored), Append(out, m), seen \cup {Lower(m)})

\* _candidate_models, given what vp_get_models_for_make_year and
\* vp_get_models_for_make answered (sets of trimmed, non-empty names).
CandidateModels(make0, model0, year, models_year, models_all) ==
  LET model == Strip(model0)
      make == Strip(make0)
      models == IF models_all # {} THEN models_year \cup models_all ELSE models_year
  IN IF make = <<>> \/ model = <<>> \/ year = 0 THEN <<>>
     ELSE IF models = {} THEN <<>>
     ELSE IF Normalize(model) = <<>> THEN <<>>
     ELSE LET scored == {<<Score(m, model), m>> :
                           m \in {x \in models : Lower(x) # Lower(model)}}
          IN Collect(SortScored({x \in scored : x[1] > 0}), <<>>, {})

(***************************************************************************)
(* State.                                                                  *)
(***************************************************************************)
VARIABLES
  files,   \* the cache directory: path -> text of the entry file
  now,     \* time.time(), in ticks
  lastSet, \* per key, when DiskCache.set last wrote it and what (history)
  cop,     \* the last direct DiskCache operation and what it returned
  lib,     \* which exception the installed requests raises for a bad body
  pc,      \* where the current remote-client call stands
  call,    \* the current call: function, argument, url, ttl, cache handle,
           \* time, whether the cache was read, what the read returned and
           \* the entry it found (history)
  tries,   \* status of every HTTP attempt of the current call, in order
  waits,   \* every backoff wait of the current call, in order
  ret,     \* how the current call ended: outcome, source of the payload
           \* ("cache", "network", or "error" when get_json raised), payload
  session, \* st.session_state: the analysis_* entries
  run,     \* the analysis run under way: its position, its locals, and the
           \* fetches it has started, in order (history)
  enr,     \* the enrich_complaints_df call under way: its arguments, its
           \* locals, the tasks of its pool, and what it returned
  conc,    \* threads inside DiskCache.get and DiskCache.set: where each
           \* stands, and which sets were begun and finished (history)
  srch,    \* the search tab: the texts given to build_index, the index it
           \* returned or the error it raised, and the last search call
  cand,    \* the last _candidate_models call: the requested model, the
           \* names vPIC listed, and the list it returned
  freq     \* the last component_frequency call: the components column of
           \* the table it was given and the rows it returned

cacheVars == <<files, now, lastSet>>
fetchVars == <<lib, pc, call, tries, waits, ret>>
appVars == <<session, run, enr, conc, srch, cand, freq>>
vars == <<files, now, lastSet, cop, lib, pc, call, tries, waits, ret, session, run,
         enr, conc, srch, cand, freq>>

(***************************************************************************)
(* DiskCache.                                                              *)
(***************************************************************************)
\* Ticks per second: the retry policy waits in multiples of 0.5 s.
TicksPerSecond == 2

\* DiskCache.default_ttl_seconds
DefaultTtlSeconds == 24 * 3600

\* Keys are hashed to file names; sha256 is modelled as collision free.
PathForKey(key) == <<"sha256", key, ".json">>

\* float(x), or the exception it raises (ok = FALSE).
ToFloat(x) ==
  CASE x.t = "num" -> [ok |-> TRUE, v |-> x.v]
    [] x.t = "bool" -> [ok |-> TRUE, v |-> IF x.v THEN TicksPerSecond ELSE 0]
    [] OTHER -> [ok |-> FALSE, v |-> 0]

\* DiskCache.get with `ttl > 0` for `ttl >= 0`: a zero ttl never expires.
CacheGet_ZeroNeverExpires(fs, t, key, ttlArg) ==
  LET ttl == IF ttlArg.t = "null" THEN DefaultTtlSeconds ELSE ttlArg.v
      path == PathForKey(key)
  IN IF path \notin DOMAIN fs THEN Null
     ELSE LET r == JsonLoads(fs[path])
          IN IF ~r.ok THEN Null
             ELSE IF r.val.t # "obj" THEN Null
             ELSE LET f == ToFloat(DictGet(r.val, "_fetched_at", Num(0)))
                  IN IF ~f.ok THEN Null
                     ELSE IF ttl > 0 /\ (t - f.v) > ttl * TicksPerSecond THEN Null
                     ELSE DictGet(r.val, "data", Null)

\* DiskCache.get with `>=` for `>`: an entry expires when its age reaches ttl.
CacheGet_ExpiresAtTtl(fs, t, key, ttlArg) ==
  LET ttl == IF ttlArg.t = "null" THEN DefaultTtlSeconds ELSE ttlArg.v
      path == PathForKey(key)
  IN IF path \notin DOMAIN fs THEN Null
     ELSE LET r == JsonLoads(fs[path])
          IN IF ~r.ok THEN Null
             ELSE IF r.val.t # "obj" THEN Null
             ELSE LET f == ToFloat(DictGet(r.val, "_fetched_at", Num(0)))
                  IN IF ~f.ok THEN Null
                     ELSE IF ttl >= 0 /\ (t - f.v) >= ttl * TicksPerSecond THEN Null
                     ELSE DictGet(r.val, "data", Null)

\* DiskCache.get: the value returned, None (Null) included.  ttlArg is None
\* or a number of seconds.
\* DiskCache.get without the test ttl >= 0.
CacheGet_NegativeExpires(fs, t, key, ttlArg) ==
  LET ttl == IF ttlArg.t = "null" THEN DefaultTtlSeconds ELSE ttlArg.v
      path == PathForKey(key)
  IN IF path \notin DOMAIN fs THEN Null
     ELSE LET r == JsonLoads(fs[path])
          IN IF ~r.ok THEN Null
             ELSE IF r.val.t # "obj" THEN Null
             ELSE LET f == ToFloat(DictGet(r.val, "_fetched_at", Num(0)))
                  IN IF ~f.ok THEN Null
                     ELSE IF (t - f.v) > ttl * TicksPerSecond THEN Null
                     ELSE DictGet(r.val, "data", Null)

\* DiskCache.get that hands out whatever the file parses to when that is
\* not an object.
CacheGet_AnyJson(fs, t, key, ttlArg) ==
  LET ttl == IF ttlArg.t = "null" THEN DefaultTtlSeconds ELSE ttlArg.v
      path == PathForKey(key)
  IN IF path \notin DOMAIN fs THEN Null
     ELSE LET r == JsonLoads(fs[path])
          IN IF ~r.ok THEN Null
             ELSE IF r.val.t # "obj" THEN r.val
             ELSE LET f == ToFloat(DictGet(r.val, "_fetched_at", Num(0)))
                  IN IF ~f.ok THEN Null
                     ELSE IF ttl >= 0 /\ (t - f.v) > ttl * TicksPerSecond THEN Null
                     ELSE DictGet(r.val, "data", Null)

CacheGet(fs, t, key, ttlArg) ==
  LET ttl == IF ttlArg.t = "null" THEN DefaultTtlSeconds ELSE ttlArg.v
      path == PathForKey(key)
  IN IF path \notin DOMAIN fs THEN Null
     ELSE LET r == JsonLoads(fs[path])
          IN IF ~r.ok THEN Null
             ELSE IF r.val.t # "obj" THEN Null
             ELSE LET f == ToFloat(DictGet(r.val, "_fetched_at", Num(0)))
                  IN IF ~f.ok THEN Null
                     ELSE IF ttl >= 0 /\ (t - f.v) > ttl * TicksPerSecond THEN Null
                     ELSE DictGet(r.val, "data", Null)

\* DiskCache.set that leaves "_fetched_at" out of the payload.
CacheSet_NoTimestamp(fs, t, key, value) ==
  (PathForKey(key) :> JsonDumps(Obj(<<<<"data", value>>>>))) @@ fs

\* DiskCache.set that does not overwrite an entry that exists.
CacheSet_KeepsExisting(fs, t, key, value) ==
  IF PathForKey(key) \in DOMAIN fs THEN fs
  ELSE (PathForKey(key) :>
          JsonDumps(Obj(<<<<"_fetched_at", Num(t)>>, <<"data", value>>>>))) @@ fs

\* DiskCache.set: the directory after the write.
CacheSet(fs, t, key, value) ==
  (PathForKey(key) :>
     JsonDumps(Obj(<<<<"_fetched_at", Num(t)>>, <<"data", value>>>>))) @@ fs

\* A clear that unlinks nothing.
CacheClear_LeavesFiles(fs) == fs

\* DiskCache.clear: every entry file is unlinked.
CacheClear(fs) == <<>>

(***************************************************************************)
(* Inputs of the model.                                                    *)
(***************************************************************************)
\* The urls of the two per-vehicle endpoints.
RecallsUrl(make, model, year) ==
  <<"recallsByVehicle", QuotePlus(Strip(make)), QuotePlus(Strip(model)), year>>
ComplaintsUrl(make, model, year) ==
  <<"complaintsByVehicle", QuotePlus(Strip(make)), QuotePlus(Strip(model)), year>>

\* The vehicle the remote client is asked about.
SampleMake == <<"B", "M", "W">>
SampleModel == <<"5", "3", "5", "i">>
SampleYear == 2000 + 11

\* A Python string argument (None is Null).
PyStr(s) == [t |-> "pystr", v |-> s]

\* len(vin) a VIN must have.
VinLength == 17

\* vin = (vin or "").strip().upper()
NormVin(vin) == Upper(Strip(IF vin.t = "null" THEN <<>> ELSE vin.v))

\* The url of the VIN decode endpoint.
VinUrl(v) == <<"decodevinvalues", QuotePlus(v)>>

\* VIN arguments: None, and strings of 0, 16, 17 and 18 characters, in lower
\* or upper case, bare or with MaxPad blanks shared between the two sides.
VinChars == <<"1", "h", "g", "c", "m", "8", "2", "6", "3", "3", "a", "0", "0",
              "4", "3", "5", "2", "x">>
VinTexts ==
  LET lower == {SubSeq(VinChars, 1, n) :
                  n \in {0, VinLength - 1, VinLength, VinLength + 1}}
  IN lower \cup {Upper(x) : x \in lower}
VinInputs ==
  {Null} \cup {PyStr(x) : x \in VinTexts}
         \cup {PyStr(Rep(" ", a) \o x \o Rep(" ", MaxPad - a)) :
                 a \in 0..MaxPad, x \in VinTexts}

\* Keys given to the cache directly, and the urls the remote client asks.
CacheKeys == {<<"k1">>, <<"k2">>}
Urls == {RecallsUrl(SampleMake, SampleModel, SampleYear),
         ComplaintsUrl(SampleMake, SampleModel, SampleYear)}

\* Model names vPIC lists for the make: two series, the requested model in
\* another case, and a name that scores nothing.
Series5 == <<"5", " ", "S", "e", "r", "i", "e", "s">>
Series3 == <<"3", " ", "S", "e", "r", "i", "e", "s">>
Upper535 == <<"5", "3", "5", "I">>
ModelX5 == <<"X", "5">>
PoolNames == {Series5, Series3, Upper535, ModelX5}
SamplePools == {{}, PoolNames}

\* JSON values of every kind.
EmptyResults == Obj(<<<<"results", Arr(<<>>)>>>>)
SomeResults == Obj(<<<<"results", Arr(<<Obj(<<<<"id", Num(7)>>>>)>>)>>>>)
SampleValues == {Null, Bool(TRUE), Arr(<<Num(1), Str("a")>>), SomeResults}

\* ttl_seconds arguments: None, negative, zero, positive.
SampleTtls == {Null, Num(-3), Num(-1), Num(0), Num(1)}

\* What the history says of a key: never set (or cleared since), or when
\* and what the last set wrote.
NoSet == [at |-> -1, value |-> Null]
LastSetOf(key) == IF key \in DOMAIN lastSet THEN lastSet[key] ELSE NoSet
Written(key, value) == (key :> [at |-> now, value |-> value]) @@ lastSet

\* removed: the entry files a clear found and unlinked (history).
NoCacheOp == [op |-> "none", key |-> <<>>, value |-> Null, ttl |-> Null,
              result |-> Null, at |-> 0, removed |-> {}]

(***************************************************************************)
(* Direct use of the cache: set, get, clear, and time passing.             *)
(***************************************************************************)
Idle == pc = "idle"

DoSet(key, value) ==
  /\ Idle
  /\ files' = CacheSet(files, now, key, value)
  /\ lastSet' = Written(key, value)
  /\ cop' = [op |-> "set", key |-> key, value |-> value, ttl |-> Null,
             result |-> Null, at |-> now, removed |-> {}]
  /\ UNCHANGED <<now, fetchVars, appVars>>

\* A get that unlinks the entry it finds too old.
DoGet_EvictsStale(key, ttlArg) ==
  /\ Idle
  /\ cop' = [op |-> "get", key |-> key, value |-> Null, ttl |-> ttlArg,
             result |-> CacheGet(files, now, key, ttlArg), at |-> now,
             removed |-> {}]
  /\ files' = IF /\ PathForKey(key) \in DOMAIN files
                 /\ CacheGet(files, now, key, ttlArg) = Null
                 /\ CacheGet(files, now, key, Num(-1)) # Null
                THEN [p \in DOMAIN files \ {PathForKey(key)} |-> files[p]]
                ELSE files
  /\ UNCHANGED <<now, lastSet, fetchVars, appVars>>

DoGet(key, ttlArg) ==
  /\ Idle
  /\ cop' = [op |-> "get", key |-> key, value |-> Null, ttl |-> ttlArg,
             result |-> CacheGet(files, now, key, ttlArg), at |-> now,
             removed |-> {}]
  /\ UNCHANGED <<cacheVars, fetchVars, appVars>>

DoClear ==
  /\ Idle
  /\ files' = CacheClear(files)
  /\ lastSet' = <<>>
  /\ cop' = [NoCacheOp EXCEPT !.op = "clear", !.at = now,
                              !.removed = DOMAIN files]
  /\ UNCHANGED <<now, fetchVars, appVars>>

Tick ==
  /\ now < MaxTime
  /\ now' = now + 1
  /\ UNCHANGED <<files, lastSet, cop, fetchVars, appVars>>

NoCall == [fn |-> "none", arg |-> Null, url |-> <<>>, ttl |-> Null,
           cache |-> FALSE, at |-> 0, read |-> FALSE, cached |-> Null,
           entry |-> NoSet]
NoRet == [kind |-> "none", val |-> Null, exc |-> "", src |-> "", payload |-> Null]

\* st.session_state before the first analysis, and no run under way.
NoVehicle == [make |-> <<>>, model |-> <<>>, year |-> 0, vin |-> Null,
              decoded |-> Null]
NoError == [text |-> "", about |-> <<>>, details |-> <<>>]
NoStats == [requested |-> 0, enriched |-> 0, failed |-> 0]
NoSession == [analysis_vehicle |-> NoVehicle,
              analysis_error |-> NoError,
              analysis_recalls_df |-> <<>>,
              analysis_complaints_df |-> <<>>,
              analysis_enrich_stats |-> NoStats,
              analysis_raw_recalls |-> Arr(<<>>),
              analysis_raw_complaints |-> Arr(<<>>)]
\* No thread is in the cache.
Threads == 1..MaxThreads
IdleThread == [op |-> "none", pc |-> "idle", key |-> <<>>, value |-> Null,
               text |-> <<>>, result |-> Null]
NoConc == [th |-> [t \in Threads |-> IdleThread], begun |-> {}, last |-> <<>>]

\* build_index has not been called.
NoIndex == [built |-> "none", texts |-> <<>>, vocabulary |-> {}]
NoSearch == [index |-> NoIndex, raised |-> "", called |-> FALSE,
             query |-> Null, top_k |-> 0, sims |-> <<>>, touched |-> FALSE,
             out |-> [kind |-> "none", pairs |-> <<>>]]
\* _candidate_models has not been called.
NoCand == [called |-> FALSE, model |-> <<>>, pool |-> {}, out |-> <<>>]

\* component_frequency has not been called.
NoFreq == [called |-> FALSE, components |-> <<>>, rows |-> <<>>]

\* No enrich_complaints_df call yet.
NoEnr == [phase |-> "none", n |-> 0, table |-> <<>>, max_records |-> 0,
          max_workers |-> 0, odi_numbers |-> <<>>, tasks |-> <<>>,
          collected |-> <<>>, results |-> <<>>, failed |-> 0,
          out |-> [df |-> <<>>, stats |-> <<>>],
          first |-> <<>>]
NoRun == [phase |-> "none", n |-> 0, requested |-> <<>>, candidates |-> <<>>,
          tried_models |-> <<>>, i |-> 0, used_model |-> <<>>,
          recalls |-> Arr(<<>>), complaints |-> Arr(<<>>),
          recalls_err |-> "", complaints_err |-> "", info |-> {},
          log |-> <<>>]

Init ==
  /\ files = <<>>
  /\ now = 0
  /\ lastSet = <<>>
  /\ cop = NoCacheOp
  /\ lib \in {"RequestException", "ValueError"}
  /\ pc = "idle"
  /\ call = NoCall
  /\ tries = <<>>
  /\ waits = <<>>
  /\ ret = NoRet
  /\ session = NoSession
  /\ run = NoRun
  /\ enr = NoEnr
  /\ conc = NoConc
  /\ srch = NoSearch
  /\ cand = NoCand
  /\ freq = NoFreq

NextCache ==
  \/ \E k \in CacheKeys, v \in SampleValues : DoSet(k, v)
  \/ \E k \in CacheKeys, t \in SampleTtls : DoGet(k, t)
  \/ DoClear
  \/ Tick

SpecCache == Init /\ [][NextCache]_vars

(***************************************************************************)
(* The remote client: _http_get_json under its tenacity policy, get_json,  *)
(* and the fetch functions built on it.                                    *)
(***************************************************************************)
\* stop_after_attempt(3)
StopAfterAttempt == 3

\* wait_exponential(multiplier=0.5, min=0.5, max=4), in ticks
WaitMultiplier == TicksPerSecond \div 2
WaitMin == TicksPerSecond \div 2
WaitMax == 4 * TicksPerSecond

Min2(a, b) == IF a < b THEN a ELSE b
Max2(a, b) == IF a > b THEN a ELSE b

\* The same wait after every failed attempt.
BackoffTicks_Constant(n) == WaitMin

\* The wait after failed attempt number n (n = 1 for the first attempt).
BackoffTicks(n) ==
  Max2(Max2(0, WaitMin), Min2(WaitMultiplier * 2 ^ (n - 1), WaitMax))

\* What the endpoint may answer to one request.  Status 0 stands for no answer
\* at all (connection error, timeout).  The text is the body.
GoodBodies == {Null, EmptyResults, SomeResults}
BadText == <<Punct("{"), Str("results")>>
AnswersWith(bodies, statuses) ==
  {[status |-> 200, text |-> JsonDumps(b)] : b \in bodies}
    \cup {[status |-> 200, text |-> BadText]}
    \cup {[status |-> st, text |-> <<>>] : st \in statuses}
HttpResponses == AnswersWith(GoodBodies, {0, 400, 404, 503})

\* Answers of the VIN decode endpoint: no object, no results, a decoded row,
\* a row with an error code.
VinRow(code) == Obj(<<<<"Make", Str("BMW")>>, <<"ErrorCode", Str(code)>>,
                      <<"ErrorText", Str("text")>>>>)
VinBodies == {Null, Obj(<<<<"Results", Arr(<<>>)>>>>),
              Obj(<<<<"Results", Arr(<<VinRow("0")>>)>>>>),
              Obj(<<<<"Results", Arr(<<VinRow("6")>>)>>>>)}
VinResponses == AnswersWith(VinBodies, {503})

\* The exceptions of requests that derive from requests.RequestException.
IsRequestException(exc) ==
  exc \in {"ConnectionError", "HTTPError", "RequestsJSONDecodeError"}

Return(x) == [kind |-> "return", val |-> x, exc |-> ""]
Raise(e) == [kind |-> "raise", val |-> Null, exc |-> e]

\* One run of the body of _http_get_json against one answer: requests.get,
\* raise_for_status, resp.json().  What a body that is not JSON raises depends
\* on the installed requests (jsonErr).
HttpGetJsonOnce(resp, jsonErr) ==
  IF resp.status = 0 THEN Raise("ConnectionError")
  ELSE IF resp.status >= 400 /\ resp.status < 600 THEN Raise("HTTPError")
  ELSE LET r == JsonLoads(resp.text)
       IN IF r.ok THEN Return(r.val)
          ELSE Raise(IF jsonErr = "RequestException"
                       THEN "RequestsJSONDecodeError" ELSE "ValueError")

\* The retry decorator's decision after attempt number n ended with outcome o:
\* "return", "raise" (the exception passes through), "give_up" (RetryError)
\* or "retry".
RetryDecision(o, n) ==
  IF o.kind = "return" THEN "return"
  ELSE IF ~IsRequestException(o.exc) THEN "raise"
  ELSE IF n >= StopAfterAttempt THEN "give_up"
  ELSE "retry"

\* payload.get("results") or payload.get("Results") or []
ResultsOf(payload) ==
  IF payload.t # "obj" THEN Raise("AttributeError")
  ELSE LET lower == DictGet(payload, "results", Null)
           upper == DictGet(payload, "Results", Null)
       IN Return(IF Truthy(lower) THEN lower
                 ELSE IF Truthy(upper) THEN upper
                 ELSE Arr(<<>>))

\* str(x), for the values an error code takes.
StrOf(x) ==
  CASE x.t = "str" -> x.v
    [] x.t = "null" -> "None"
    [] x.t = "num" -> IF x.v = 0 THEN "0" ELSE "number"
    [] OTHER -> "other"

\* d[key] = value
RECURSIVE PairsSet(_, _, _)
PairsSet(ps, key, value) ==
  IF ps = <<>> THEN <<<<key, value>>>>
  ELSE IF Head(ps)[1] = key THEN <<<<key, value>>>> \o Tail(ps)
  ELSE <<Head(ps)>> \o PairsSet(Tail(ps), key, value)

\* Error codes of a decode that went well.
OkErrorCodes == {"0", "0.0", "", "null", "None"}

\* decode_vin after get_json (lines 70-80).
DecodedRow(payload) ==
  IF payload.t # "obj" THEN Raise("AttributeError")
  ELSE LET got == DictGet(payload, "Results", Null)
           results == IF Truthy(got) THEN got ELSE Arr(<<>>)
       IN IF ~Truthy(results) THEN Raise("NHTSAError")
          ELSE IF results.t = "obj" THEN Raise("KeyError")
          ELSE IF results.t # "arr" THEN Raise("TypeError")
          ELSE LET row == results.v[1]
               IN IF row.t # "obj" THEN Raise("AttributeError")
                  ELSE LET code == StrOf(DictGet(row, "ErrorCode", Str("")))
                           text == StrOf(DictGet(row, "ErrorText", Str("")))
                       IN IF code \notin OkErrorCodes
                            THEN Return(Obj(PairsSet(row.v, "_vin_decode_warning",
                                                     Str(code \o ": " \o text))))
                            ELSE Return(row)

\* What the function fn makes of the payload get_json returned to it.
Finish(fn, payload) ==
  CASE fn = "get_json" -> Return(payload)
    [] fn \in {"fetch_recalls_by_vehicle", "fetch_complaints_by_vehicle"} ->
         ResultsOf(payload)
    [] fn = "decode_vin" -> DecodedRow(payload)
    [] OTHER -> Return(payload)

\* ttl_seconds of the per-vehicle fetches, and get_json's default.
VehicleTtlSeconds == 12 * 3600
GetJsonDefaultTtlSeconds == 24 * 3600

\* How a call ended: the outcome o, where the payload came from, and the
\* payload get_json returned (None when it raised).
Ended(o, src, payload) ==
  [kind |-> o.kind, val |-> o.val, exc |-> o.exc, src |-> src, payload |-> payload]

\* get_json up to its first return or its first HTTP request (lines 44-47):
\* the cache is read, and a value that is not None is returned at once.
GetJsonBegin(fn, arg, url, ttl, useCache) ==
  /\ Idle
  /\ LET cached == IF useCache THEN CacheGet(files, now, url, Num(ttl)) ELSE Null
         hit == useCache /\ cached # Null
     IN /\ call' = [fn |-> fn, arg |-> arg, url |-> url, ttl |-> Num(ttl),
                    cache |-> useCache, at |-> now, read |-> useCache,
                    cached |-> cached, entry |-> LastSetOf(url)]
        /\ pc' = IF hit THEN "idle" ELSE "attempt"
        /\ ret' = IF hit THEN Ended(Finish(fn, cached), "cache", cached) ELSE NoRet
  /\ tries' = <<>>
  /\ waits' = <<>>
  /\ UNCHANGED <<cacheVars, cop, lib>>

\* A call from outside an analysis run.
GetJsonCall(fn, arg, url, ttl, useCache) ==
  /\ GetJsonBegin(fn, arg, url, ttl, useCache)
  /\ UNCHANGED appVars

\* ttl_seconds of decode_vin.
VinTtlSeconds == 7 * 24 * 3600

\* decode_vin refusing nothing but an empty VIN.
VinError_RequiredOnly(vin) == IF vin = <<>> THEN "VIN is required." ELSE ""

\* The message decode_vin raises for the trimmed, uppercased VIN it refuses,
\* "" for one it accepts.
VinError(vin) ==
  IF vin = <<>> THEN "VIN is required."
  ELSE IF Len(vin) # VinLength THEN "VIN must be 17 characters."
  ELSE ""

\* decode_vin up to its first return or its first HTTP request (lines 61-69).
DecodeVinCall(vin, useCache) ==
  IF VinError(NormVin(vin)) # ""
    THEN /\ Idle
         /\ call' = [NoCall EXCEPT !.fn = "decode_vin", !.arg = vin,
                                   !.cache = useCache, !.at = now]
         /\ ret' = Ended(Raise("NHTSAError"), "input", Null)
         /\ pc' = "idle"
         /\ tries' = <<>>
         /\ waits' = <<>>
         /\ UNCHANGED <<cacheVars, cop, lib, appVars>>
    ELSE GetJsonCall("decode_vin", vin, VinUrl(NormVin(vin)), VinTtlSeconds, useCache)

\* A get_json that unlinks the entry of its url when the request has failed
\* for good.
HttpAttempt_DropsEntryOnFailure(resp) ==
  /\ pc = "attempt"
  /\ tries' = Append(tries, resp.status)
  /\ LET o == HttpGetJsonOnce(resp, lib)
         d == RetryDecision(o, Len(tries) + 1)
         kept == DOMAIN files \ {PathForKey(call.url)}
     IN CASE d = "return" ->
               /\ files' = files
               /\ IF call.cache
                    THEN /\ pc' = "store"
                         /\ ret' = [NoRet EXCEPT !.payload = o.val]
                    ELSE /\ pc' = "idle"
                         /\ ret' = Ended(Finish(call.fn, o.val), "network", o.val)
          [] d = "raise" ->
               /\ files' = [p \in kept |-> files[p]]
               /\ pc' = "idle"
               /\ ret' = Ended(o, "error", Null)
          [] d = "give_up" ->
               /\ files' = [p \in kept |-> files[p]]
               /\ pc' = "idle"
               /\ ret' = Ended(Raise("RetryError"), "error", Null)
          [] OTHER ->
               /\ files' = files
               /\ pc' = "wait"
               /\ ret' = NoRet
  /\ UNCHANGED <<now, lastSet, cop, lib, call, waits, appVars>>

\* One HTTP attempt of _http_get_json and the retry decorator's decision.
HttpAttempt(resp) ==
  /\ pc = "attempt"
  /\ tries' = Append(tries, resp.status)
  /\ LET o == HttpGetJsonOnce(resp, lib)
         d == RetryDecision(o, Len(tries) + 1)
     IN CASE d = "return" ->
               IF call.cache
                 THEN /\ pc' = "store"
                      /\ ret' = [NoRet EXCEPT !.payload = o.val]
                 ELSE /\ pc' = "idle"
                      /\ ret' = Ended(Finish(call.fn, o.val), "network", o.val)
          [] d = "raise" ->
               /\ pc' = "idle"
               /\ ret' = Ended(o, "error", Null)
          [] d = "give_up" ->
               /\ pc' = "idle"
               /\ ret' = Ended(Raise("RetryError"), "error", Null)
          [] OTHER ->
               /\ pc' = "wait"
               /\ ret' = NoRet
  /\ UNCHANGED <<cacheVars, cop, lib, call, waits, appVars>>

\* The sleep between two attempts.
Backoff ==
  /\ pc = "wait"
  /\ now + BackoffTicks(Len(tries)) <= MaxTime
  /\ now' = now + BackoffTicks(Len(tries))
  /\ waits' = Append(waits, BackoffTicks(Len(tries)))
  /\ pc' = "attempt"
  /\ UNCHANGED <<files, lastSet, cop, lib, call, tries, ret, appVars>>

\* get_json after a successful request (lines 49-51): cache.set, then return.
GetJsonStore ==
  /\ pc = "store"
  /\ files' = CacheSet(files, now, call.url, ret.payload)
  /\ lastSet' = Written(call.url, ret.payload)
  /\ ret' = Ended(Finish(call.fn, ret.payload), "network", ret.payload)
  /\ pc' = "idle"
  /\ UNCHANGED <<now, cop, lib, call, tries, waits, appVars>>

(***************************************************************************)
(* Claims about the cache, checked under SpecCache.                        *)
(***************************************************************************)
\* What callers of DiskCache.get read as "absent".
Absent == Null

\* The last operation is a get of a key written at this very tick by the
\* last set of that key, with a ttl >= 0.
GetRightAfterSet ==
  /\ cop.op = "get"
  /\ LastSetOf(cop.key).at = cop.at
  /\ cop.ttl.t = "num" /\ cop.ttl.v >= 0

\* C1 as stated: set(k, v) followed immediately by get(k, ttl >= 0) returns a
\* value equal to v, and never absent, for every JSON value v.
C1_RoundTripEveryValue ==
  GetRightAfterSet =>
    cop.result = LastSetOf(cop.key).value /\ cop.result # Absent

\* C1 amended: set(k, v) followed immediately by get(k, ttl >= 0) returns a
\* value equal to v; the value is not read as absent provided v is not null.
C1_RoundTrip ==
  GetRightAfterSet =>
    /\ cop.result = LastSetOf(cop.key).value
    /\ LastSetOf(cop.key).value # Null => cop.result # Absent

C1_Witness ==
  /\ GetRightAfterSet
  /\ cop.ttl.v = 0
  /\ cop.result = SomeResults

\* The last operation is a get of a key whose last set lies more than ttl
\* seconds back.
GetAfterTtl ==
  /\ cop.op = "get"
  /\ LastSetOf(cop.key).at >= 0
  /\ cop.ttl.t = "num"
  /\ cop.ttl.v * TicksPerSecond < cop.at - LastSetOf(cop.key).at

\* C2 as stated: for every ttl smaller than the time elapsed since the last
\* set of the key, get returns absent.
C2_ExpiryEveryTtl == GetAfterTtl => cop.result = Absent

\* C2 amended: for every ttl >= 0 smaller than the time elapsed since the last
\* set of the key, get returns absent (a negative ttl never expires).
C2_Expiry == GetAfterTtl /\ cop.ttl.v >= 0 => cop.result = Absent

C2_Witness ==
  /\ GetAfterTtl
  /\ cop.ttl.v = 1
  /\ LastSetOf(cop.key).value = SomeResults
  /\ cop.result = Absent

(***************************************************************************)
(* The remote client called directly.                                      *)
(***************************************************************************)
\* ttl_seconds given to get_json directly.
FetchTtls == {0, 1}

NextFetch ==
  \/ \E u \in Urls, t \in FetchTtls : GetJsonCall("get_json", Null, u, t, TRUE)
  \/ \E u \in Urls :
       GetJsonCall("get_json", Null, u, GetJsonDefaultTtlSeconds, FALSE)
  \/ GetJsonCall("fetch_recalls_by_vehicle", Null,
                 RecallsUrl(SampleMake, SampleModel, SampleYear),
                 VehicleTtlSeconds, TRUE)
  \/ GetJsonCall("fetch_complaints_by_vehicle", Null,
                 ComplaintsUrl(SampleMake, SampleModel, SampleYear),
                 VehicleTtlSeconds, TRUE)
  \/ \E r \in HttpResponses : HttpAttempt(r)
  \/ Backoff
  \/ GetJsonStore
  \/ Tick

Spec == Init /\ [][NextFetch]_vars

(***************************************************************************)
(* Claims about the remote client, checked under Spec.                     *)
(***************************************************************************)
\* A call of get_json with a cache handle is under way or has ended.
CachedCall == call.fn # "none" /\ call.cache

\* When the call started, the cache held an entry for its url, valid under
\* its ttl: now - fetched_at <= ttl, or ttl negative.
ValidAtCall ==
  /\ call.entry.at >= 0
  /\ \/ call.ttl.v < 0
     \/ call.at - call.entry.at <= call.ttl.v * TicksPerSecond

\* The call ended by returning the entry's data, without any request.
ServedFromCache ==
  /\ pc = "idle"
  /\ ret.src = "cache"
  /\ ret.payload = call.entry.value
  /\ tries = <<>>

\* Requests are made only after the cache read reported absent.
RequestOnlyAfterMiss == CachedCall /\ tries # <<>> => call.cached = Absent

\* C3 as stated: a get_json called while the cache holds an entry for the url
\* that is valid under ttl returns the cached data and issues no request; a
\* request is issued only after the cache read reported absent.
C3_CacheFirstEveryEntry ==
  /\ CachedCall /\ ValidAtCall => ServedFromCache
  /\ RequestOnlyAfterMiss

\* C3 amended: a get_json called while the cache holds an entry for the url
\* that is valid under ttl and whose data is not null returns the cached data
\* and issues no request; a request is issued only after the cache read
\* reported absent.
C3_CacheFirst ==
  /\ CachedCall /\ ValidAtCall /\ call.entry.value # Null => ServedFromCache
  /\ RequestOnlyAfterMiss

C3_Witness ==
  /\ CachedCall /\ ValidAtCall
  /\ call.fn = "get_json"
  /\ call.at > call.entry.at
  /\ ret.kind = "return" /\ ret.val = SomeResults /\ ret.src = "cache"

\* The entry file of a key holds exactly this data, written between two times.
FileHolds(key, data, from, to) ==
  /\ PathForKey(key) \in DOMAIN files
  /\ \E t \in from..to :
       LET r == JsonLoads(files[PathForKey(key)])
       IN r.ok /\ r.val = Obj(<<<<"_fetched_at", Num(t)>>, <<"data", data>>>>)

\* get_json, given a cache handle, has returned a payload from the network.
ReturnedFromNetwork == CachedCall /\ pc = "idle" /\ ret.src = "network"

\* A step that starts the next call, for the same url, with no time elapsed
\* since the entry was written.
CallsAgainAtOnce ==
  /\ ReturnedFromNetwork
  /\ LastSetOf(call.url).at = now
  /\ now' = now
  /\ call'.fn # "none" /\ call'.cache /\ call'.url = call.url

WrittenBeforeReturn ==
  ReturnedFromNetwork => FileHolds(call.url, ret.payload, call.at, now)

\* C4 as stated: when get_json returns a value obtained from the network, the
\* entry of the url has been overwritten with exactly that value and a fresh
\* fetched_at before the return, so an immediately following get_json for the
\* same url is served from the cache.
C4_WriteThroughEveryValue ==
  /\ []WrittenBeforeReturn
  /\ [][CallsAgainAtOnce =>
          ret'.src = "cache" /\ ret'.payload = ret.payload /\ tries' = <<>>]_vars

\* C4 amended: when get_json, given a cache handle, returns a value obtained
\* from the network, the entry of the url has been overwritten with exactly
\* that value and a fresh fetched_at before the return; if the value is not
\* null, an immediately following get_json for the same url is served from the
\* cache.
C4_WriteThrough ==
  /\ []WrittenBeforeReturn
  /\ [][CallsAgainAtOnce /\ ret.payload # Null =>
          ret'.src = "cache" /\ ret'.payload = ret.payload /\ tries' = <<>>]_vars

C4_Witness ==
  /\ CachedCall /\ pc = "idle"
  /\ ret.src = "cache" /\ ret.payload = SomeResults
  /\ call.entry.at = call.at
  /\ call.at > 0

\* The answers of the endpoint to the call so far: n times 503, then
\* possibly one 200.
OnlyUnavailable(n) ==
  /\ Len(tries) >= n
  /\ \A i \in 1..n : tries[i] = 503
  /\ \A i \in (n + 1)..Len(tries) : i = n + 1 /\ tries[i] = 200

\* C5: a fetch on a cache miss against an endpoint that answers 503 exactly
\* N times and then succeeds returns the successful result when N is smaller
\* than the retry budget, and raises the service error (NHTSAError) when N is
\* greater than or equal to the retry budget.
C5_RetryBound ==
  pc = "idle" /\ call.fn = "get_json" =>
    /\ \A n \in 0..(StopAfterAttempt - 1) :
         OnlyUnavailable(n) /\ Len(tries) = n + 1 /\ ret.src # "error" =>
           ret.kind = "return" /\ ret.src = "network"
    /\ OnlyUnavailable(StopAfterAttempt) =>
         ret.kind = "raise" /\ ret.exc = "NHTSAError"

IsVehicleFetch ==
  call.fn \in {"fetch_recalls_by_vehicle", "fetch_complaints_by_vehicle"}

\* C6: when the endpoint answers a vehicle fetch with status 404, the fetch
\* returns an empty result list and raises no error.
C6_NotFoundIsEmpty ==
  IsVehicleFetch /\ tries # <<>> /\ tries[Len(tries)] = 404 =>
    pc = "idle" /\ ret.kind = "return" /\ ret.val = Arr(<<>>)

\* C7: every failing outcome of a fetch operation reaches the caller as the
\* single error kind NHTSAError; no other exception kind escapes.
C7_UnifiedErrorKind ==
  pc = "idle" /\ ret.kind = "raise" => ret.exc = "NHTSAError"

\* C8: when the endpoint answers with a failure status that is neither 404
\* nor one of 429, 500, 502, 503, 504, the fetch raises after exactly one
\* HTTP attempt, with no backoff wait and no second attempt.
C8_NoRetryOfOtherStatus ==
  tries # <<>> /\ tries[1] = 400 =>
    /\ pc = "idle" /\ ret.kind = "raise"
    /\ Len(tries) = 1 /\ waits = <<>>

(***************************************************************************)
(* decode_vin called with every kind of argument.  Time passes in the      *)
(* waits between attempts only: its entries live for seven days.           *)
(***************************************************************************)
NextVin ==
  \/ \E x \in VinInputs : DecodeVinCall(x, TRUE)
  \/ \E r \in VinResponses : HttpAttempt(r)
  \/ Backoff
  \/ GetJsonStore

SpecVin == Init /\ [][NextVin]_vars

\* The argument of the current decode_vin call has, trimmed and uppercased, a
\* length other than 17 (None counts as empty).
RefusedVin ==
  /\ call.fn = "decode_vin"
  /\ Len(Upper(Strip(IF call.arg = Null THEN <<>> ELSE call.arg.v))) # 17

\* C9: for every input whose trimmed, uppercased length is not 17 (empty and
\* null included), decode_vin raises an error before any cache read and before
\* any network call is attempted; the cache contents are unchanged.
C9_VinValidation ==
  /\ [](RefusedVin =>
          /\ pc = "idle" /\ ret.kind = "raise"
          /\ ~call.read /\ tries = <<>>)
  /\ [][pc = "idle" /\ now' = now /\ RefusedVin' => files' = files]_vars

C9_Witness ==
  /\ RefusedVin
  /\ call.arg # Null /\ Len(call.arg.v) = 17
  /\ ret.exc = "NHTSAError"
  /\ files # <<>>

(***************************************************************************)
(* The analysis run of app.py, lookup by make / model / year.  The fetches *)
(* of a run are calls of the remote client above; what vPIC lists for the  *)
(* make is an input of the run.  The raw lists are stored at line 607;    *)
(* the tables and the enrichment (lines 609-624) are the step StoreTables, *)
(* defined after the enrichment.                                           *)
(***************************************************************************)
\* An error that clears the raw lists and keeps the tables and counters.
SetAnalysisError_KeepsTables(ss, text, about, details) ==
  [ss EXCEPT !.analysis_error = [text |-> text, about |-> about, details |-> details],
             !.analysis_raw_recalls = Arr(<<>>),
             !.analysis_raw_complaints = Arr(<<>>)]

\* _set_analysis_error: the message, and the data of earlier runs cleared.
SetAnalysisError(ss, text, about, details) ==
  [ss EXCEPT !.analysis_error = [text |-> text, about |-> about, details |-> details],
             !.analysis_recalls_df = <<>>,
             !.analysis_complaints_df = <<>>,
             !.analysis_enrich_stats = NoStats,
             !.analysis_raw_recalls = Arr(<<>>),
             !.analysis_raw_complaints = Arr(<<>>)]

\* _clear_analysis_error
ClearAnalysisError(ss) == [ss EXCEPT !.analysis_error = NoError]

\* Lines 547-550: the requested model, then the candidates not yet listed.
RECURSIVE TriedModels(_, _)
TriedModels(tried, candidates) ==
  IF candidates = <<>> THEN tried
  ELSE TriedModels(IF \E k \in 1..Len(tried) : tried[k] = Head(candidates)
                     THEN tried ELSE Append(tried, Head(candidates)),
                   Tail(candidates))

\* The loop going on although complaints were found.
StopsHere_RecallsOnly(recalls, complaints) == Truthy(recalls)

\* if recalls or complaints: break
StopsHere(recalls, complaints) == Truthy(recalls) \/ Truthy(complaints)

\* The "Analyze vehicle" click, to the start of the loop (lines 479-552).
AnalyzeClick(make, model, year, models_year, models_all) ==
  /\ Idle
  /\ run.phase \in {"none", "done"}
  /\ run.n < MaxRuns
  /\ LET vehicle == [make |-> make, model |-> model, year |-> year,
                     vin |-> Null, decoded |-> Null]
         cleared == [ClearAnalysisError(session) EXCEPT !.analysis_vehicle = vehicle]
         candidates == CandidateModels(make, model, year, models_year, models_all)
     IN IF make = <<>> \/ model = <<>> \/ year = 0
          THEN /\ session' = SetAnalysisError(cleared, "Enter make, model, and year.",
                                              <<>>, <<>>)
               /\ run' = [NoRun EXCEPT !.phase = "done", !.n = run.n + 1,
                                       !.requested = model]
          ELSE /\ session' = cleared
               /\ run' = [NoRun EXCEPT !.phase = "recalls",
                                       !.n = run.n + 1,
                                       !.requested = model,
                                       !.candidates = candidates,
                                       !.tried_models = TriedModels(<<model>>, candidates),
                                       !.i = 1,
                                       !.used_model = model]
  /\ UNCHANGED <<cacheVars, cop, fetchVars, enr, conc, srch, cand, freq>>

\* An entry of the run's history: a fetch it started.
Started(fn, model) ==
  [fn |-> fn, model |-> model, done |-> FALSE, data |-> FALSE, exc |-> ""]

\* The history after the fetch under way has ended: with data or without,
\* and with the exception it raised, "" when it returned.
Closed(log, data, exc) ==
  [log EXCEPT ![Len(log)] = [@ EXCEPT !.done = TRUE, !.data = data, !.exc = exc]]

\* except Exception (lines 630-634).
Unexpected(ss) ==
  SetAnalysisError(ss, "Unexpected error. Please try again.", <<>>, <<>>)

\* Lines 555-560: the next model of the loop, fetch_recalls_by_vehicle called.
TrialRecalls ==
  /\ run.phase = "recalls"
  /\ LET m == run.tried_models[run.i]
         v == session.analysis_vehicle
     IN /\ GetJsonBegin("fetch_recalls_by_vehicle", PyStr(m),
                        RecallsUrl(v.make, m, v.year), VehicleTtlSeconds, TRUE)
        /\ run' = [run EXCEPT !.phase = "recalls_wait",
                              !.used_model = m,
                              !.recalls_err = "",
                              !.complaints_err = "",
                              !.log = Append(@, Started("recalls", m))]
  /\ UNCHANGED <<session, enr, conc, srch, cand, freq>>

\* Lines 560-563: fetch_recalls_by_vehicle has returned or raised.
RecallsDone ==
  /\ run.phase = "recalls_wait"
  /\ Idle
  /\ IF ret.kind = "return"
       THEN /\ run' = [run EXCEPT !.phase = "complaints",
                                  !.recalls = ret.val,
                                  !.log = Closed(@, Truthy(ret.val), "")]
            /\ UNCHANGED session
       ELSE IF ret.exc = "NHTSAError"
         THEN /\ run' = [run EXCEPT !.phase = "complaints",
                                    !.recalls = Arr(<<>>),
                                    !.recalls_err = ret.exc,
                                    !.log = Closed(@, FALSE, ret.exc)]
              /\ UNCHANGED session
         ELSE /\ run' = [run EXCEPT !.phase = "done", !.log = Closed(@, FALSE, ret.exc)]
              /\ session' = Unexpected(session)
  /\ UNCHANGED <<cacheVars, cop, fetchVars, enr, conc, srch, cand, freq>>

\* Line 566: fetch_complaints_by_vehicle called for the same model.
TrialComplaints ==
  /\ run.phase = "complaints"
  /\ LET m == run.tried_models[run.i]
         v == session.analysis_vehicle
     IN /\ GetJsonBegin("fetch_complaints_by_vehicle", PyStr(m),
                        ComplaintsUrl(v.make, m, v.year), VehicleTtlSeconds, TRUE)
        /\ run' = [run EXCEPT !.phase = "complaints_wait",
                              !.log = Append(@, Started("complaints", m))]
  /\ UNCHANGED <<session, enr, conc, srch, cand, freq>>

\* Lines 566-572: fetch_complaints_by_vehicle has returned or raised, and the
\* loop breaks, goes on to the next model, or is over.
RecallsKept(complaints) ==
  IF StopsHere(run.recalls, complaints) \/ run.i >= Len(run.tried_models)
    THEN [run EXCEPT !.phase = "after_loop", !.complaints = complaints]
    ELSE [run EXCEPT !.phase = "recalls", !.complaints = complaints, !.i = @ + 1]

ComplaintsDone ==
  /\ run.phase = "complaints_wait"
  /\ Idle
  /\ IF ret.kind = "return"
       THEN /\ run' = [RecallsKept(ret.val) EXCEPT !.log = Closed(@, Truthy(ret.val), "")]
            /\ UNCHANGED session
       ELSE IF ret.exc = "NHTSAError"
         THEN /\ run' = [RecallsKept(Arr(<<>>)) EXCEPT !.complaints_err = ret.exc,
                                                       !.log = Closed(@, FALSE, ret.exc)]
              /\ UNCHANGED session
         ELSE /\ run' = [run EXCEPT !.phase = "done", !.log = Closed(@, FALSE, ret.exc)]
              /\ session' = Unexpected(session)
  /\ UNCHANGED <<cacheVars, cop, fetchVars, enr, conc, srch, cand, freq>>

\* The model is replaced by a candidate that found nothing.
FallbackFound_AnyOther(used_model, model, found) == used_model # model

\* if (used_model != v["model"]) and (recalls or complaints)
FallbackFound(used_model, model, found) == used_model # model /\ found

\* A run without data taken for a success.
Conclude_EmptyIsSuccess ==
  /\ run.phase = "after_loop"
  /\ LET found == Truthy(run.recalls) \/ Truthy(run.complaints)
         fallback == FallbackFound(run.used_model, session.analysis_vehicle.model, found)
         ss == IF fallback
                 THEN [session EXCEPT !.analysis_vehicle.model = run.used_model]
                 ELSE session
     IN IF run.recalls_err # "" /\ run.complaints_err # ""
          THEN /\ session' = SetAnalysisError(session,
                                 "NHTSA services are currently unavailable for this lookup.",
                                 <<>>, <<run.recalls_err, run.complaints_err>>)
               /\ run' = [run EXCEPT !.phase = "done"]
          ELSE /\ session' = [ss EXCEPT !.analysis_raw_recalls = run.recalls,
                                        !.analysis_raw_complaints = run.complaints]
               /\ run' = [run EXCEPT !.phase = "tables",
                                     !.info = IF fallback THEN {"closest match"} ELSE {}]
  /\ UNCHANGED <<cacheVars, cop, fetchVars, enr, conc, srch, cand, freq>>

\* Lines 575-607: after the loop, to the error of the run or to the raw
\* lists stored.
Conclude ==
  /\ run.phase = "after_loop"
  /\ LET found == Truthy(run.recalls) \/ Truthy(run.complaints)
         fallback == FallbackFound(run.used_model, session.analysis_vehicle.model, found)
         ss == IF fallback
                 THEN [session EXCEPT !.analysis_vehicle.model = run.used_model]
                 ELSE session
         v == ss.analysis_vehicle
     IN IF run.recalls_err # "" /\ run.complaints_err # ""
          THEN /\ session' = SetAnalysisError(session,
                                 "NHTSA services are currently unavailable for this lookup.",
                                 <<>>, <<run.recalls_err, run.complaints_err>>)
               /\ run' = [run EXCEPT !.phase = "done"]
          ELSE IF run.recalls_err = "" /\ run.complaints_err = "" /\ ~found
            THEN /\ session' = SetAnalysisError(ss, "No NHTSA data found for",
                                                <<v.year, v.make, v.model>>, <<>>)
                 /\ run' = [run EXCEPT !.phase = "done"]
            ELSE /\ session' = [ss EXCEPT !.analysis_raw_recalls = run.recalls,
                                          !.analysis_raw_complaints = run.complaints]
                 /\ run' = [run EXCEPT
                              !.phase = "tables",
                              !.info = (IF fallback THEN {"closest match"} ELSE {})
                                  \cup (IF run.recalls_err # "" /\ run.complaints_err = ""
                                          THEN {"complaints only"} ELSE {})
                                  \cup (IF run.complaints_err # "" /\ run.recalls_err = ""
                                          THEN {"recalls only"} ELSE {})]
  /\ UNCHANGED <<cacheVars, cop, fetchVars, enr, conc, srch, cand, freq>>

\* A result list with one complaint that has an id.
ComplaintResults ==
  Obj(<<<<"results",
          Arr(<<Obj(<<<<"odiNumber", Num(1)>>, <<"summary", Num(1)>>,
                      <<"crash", Null>>>>)>>)>>>>)

\* Answers of the per-vehicle endpoints during an analysis.
AnalysisResponses ==
  AnswersWith({EmptyResults, SomeResults, ComplaintResults}, {503})


(***************************************************************************)
(* Claims about the analysis run, checked under SpecAnalysis.              *)
(***************************************************************************)
\* The models of a run in trial order: the requested one, then what the
\* resolver returned, in its order.
TrialOrder == <<run.requested>> \o run.candidates

\* The fetches started so far are, in order, recalls then complaints of the
\* first models of the trial order.
FetchedInOrder ==
  /\ Len(run.log) <= 2 * Len(TrialOrder)
  /\ \A j \in 1..Len(run.log) :
       /\ run.log[j].model = TrialOrder[(j + 1) \div 2]
       /\ run.log[j].fn = IF j % 2 = 1 THEN "recalls" ELSE "complaints"

\* Every fetch but the last started has ended, and a remote call under way
\* is the last fetch started.
OneAtATime ==
  /\ \A j \in 1..(Len(run.log) - 1) : run.log[j].done
  /\ run.phase \notin {"none", "done"} /\ ~Idle =>
       run.log # <<>> /\ ~run.log[Len(run.log)].done

\* Nothing is fetched after a trial that found recalls or complaints.
StopsAtFirstData ==
  \A k \in 1..Len(TrialOrder) :
    /\ 2 * k <= Len(run.log)
    /\ run.log[2 * k].done
    /\ run.log[2 * k - 1].data \/ run.log[2 * k].data
    => Len(run.log) = 2 * k

\* No endpoint is asked twice about a model, ignoring case.
NoModelTwice ==
  \A j, k \in 1..Len(run.log) :
    j # k /\ run.log[j].fn = run.log[k].fn =>
      Lower(run.log[j].model) # Lower(run.log[k].model)

\* C10: an analysis tries the requested model first and then each resolver
\* candidate in the resolver's order, one at a time (both fetches of a trial
\* end before the next trial starts), and stops at the first model for which
\* recalls or complaints is non-empty: no model after that one is fetched,
\* and no model is fetched twice.
C10_FallbackTrialOrder ==
  FetchedInOrder /\ OneAtATime /\ StopsAtFirstData /\ NoModelTwice

\* The requested model gave nothing, the first of two candidates gave
\* complaints only, and the run ended without fetching the second.
C10_Witness ==
  /\ run.phase = "done"
  /\ Len(run.candidates) = 2
  /\ Len(run.log) = 4
  /\ ~run.log[1].data /\ ~run.log[2].data /\ ~run.log[3].data /\ run.log[4].data
  /\ session.analysis_vehicle.model = run.candidates[1]
  /\ Truthy(session.analysis_raw_complaints)

\* The run is over, every model of the trial order was tried, and both
\* endpoints answered every trial with an empty list.
Exhausted ==
  /\ run.phase = "done"
  /\ run.log # <<>>
  /\ Len(run.log) = 2 * Len(TrialOrder)
  /\ \A j \in 1..Len(run.log) :
       run.log[j].done /\ ~run.log[j].data /\ run.log[j].exc = ""

\* C11: when the requested model and every candidate were tried and both
\* endpoints answered each of them with empty results, the analysis ends in
\* the "no data for this vehicle" outcome, not the service error, and the
\* message names the requested model, not a candidate.
C11_ExhaustedFallback ==
  Exhausted =>
    /\ session.analysis_error.text = "No NHTSA data found for"
    /\ session.analysis_error.about =
         <<session.analysis_vehicle.year, session.analysis_vehicle.make, run.requested>>
    /\ session.analysis_vehicle.model = run.requested

\* Three models were tried to no avail.
C11_Witness ==
  /\ Exhausted
  /\ Len(run.candidates) = 2
  /\ run.used_model = run.candidates[2]
  /\ session.analysis_error.text = "No NHTSA data found for"

\* The run is over; in its last trial the recalls fetch returned data and the
\* complaints fetch raised after the last attempt of its retry budget.
ComplaintsFailedOnly ==
  /\ run.phase = "done"
  /\ Len(run.log) >= 2 /\ Len(run.log) % 2 = 0
  /\ run.log[Len(run.log) - 1].data /\ run.log[Len(run.log) - 1].exc = ""
  /\ run.log[Len(run.log)].exc # ""
  /\ Len(tries) = StopAfterAttempt

\* C12: when, for the model finally used, exactly one of the two endpoints
\* fails after its retry budget and the other returns data, the analysis does
\* not end in an error outcome: it stores and shows the available data with a
\* note about the failed endpoint.
C12_PartialSuccess ==
  ComplaintsFailedOnly =>
    /\ session.analysis_error = NoError
    /\ session.analysis_raw_recalls = run.recalls
    /\ Truthy(session.analysis_raw_recalls)
    /\ "recalls only" \in run.info

\* The run is over and every fetch it made failed after its retries.
ServiceDown ==
  /\ run.phase = "done"
  /\ run.log # <<>>
  /\ \A j \in 1..Len(run.log) : run.log[j].exc = "RetryError"

\* The run is over and both endpoints answered its last trial with an empty
\* list.
NothingFound ==
  /\ run.phase = "done"
  /\ Len(run.log) >= 2 /\ Len(run.log) % 2 = 0
  /\ \A j \in {Len(run.log) - 1, Len(run.log)} :
       run.log[j].done /\ ~run.log[j].data /\ run.log[j].exc = ""

\* C13: when both endpoints fail after their retries the analysis ends in the
\* "service unavailable" outcome carrying both error texts, when both succeed
\* with empty results it ends in the "no data" outcome, and neither is
\* reported as a generic unexpected error.
C13_ServiceFailureVsNoData ==
  /\ ServiceDown =>
       /\ session.analysis_error.text =
            "NHTSA services are currently unavailable for this lookup."
       /\ Len(session.analysis_error.details) = 2
  /\ NothingFound => session.analysis_error.text = "No NHTSA data found for"

(***************************************************************************)
(* Enrichment (enrich_complaints_df).  Tables are sequences of rows, a row *)
(* is an object of column values, NaN is Null.                             *)
(***************************************************************************)
\* The url of the detail endpoint for a complaint id.
DetailUrl(odi) == <<"safetyIssues/byNhtsaId", "complaints", odi>>

\* ttl_seconds of fetch_safety_issue_by_nhtsa_id.
DetailTtlSeconds == 7 * 24 * 3600

\* a or b or c
Or3(a, b, c) == IF Truthy(a) THEN a ELSE IF Truthy(b) THEN b ELSE c

\* x[0] or {}, for a list x that is not empty
FirstOrEmpty(x) == IF Truthy(x.v[1]) THEN x.v[1] ELSE Obj(<<>>)

\* A first result without complaints read as a complaint without fields.
EnrichRow_NoComplaintRow(payload) ==
  IF payload.t # "obj" THEN Raise("AttributeError")
  ELSE LET results == DictGet(payload, "results", Null)
       IN IF ~Truthy(results) THEN Return(Obj(<<>>))
          ELSE IF results.t # "arr" THEN Raise("TypeError")
          ELSE IF FirstOrEmpty(results).t # "obj" THEN Raise("AttributeError")
          ELSE LET complaints == DictGet(FirstOrEmpty(results), "complaints", Null)
                   c == IF Truthy(complaints) /\ complaints.t = "arr"
                             /\ FirstOrEmpty(complaints).t = "obj"
                          THEN FirstOrEmpty(complaints) ELSE Obj(<<>>)
               IN Return(Obj(<<
                    <<"odiNumber", Or3(DictGet(c, "nhtsaIdNumber", Null),
                                       DictGet(c, "odiId", Null),
                                       DictGet(c, "ODINumber", Null))>>,
                    <<"description", DictGet(c, "description", Null)>>,
                    <<"consumerLocation", DictGet(c, "consumerLocation", Null)>>,
                    <<"crash", Bool(Truthy(DictGet(c, "crash", Bool(FALSE))))>> >>))

\* enrich_complaint_from_safety_issue, with the columns odiNumber,
\* description, consumerLocation and crash; the other columns are read from
\* the complaint the same way.
EnrichRow(payload) ==
  IF payload.t # "obj" THEN Raise("AttributeError")
  ELSE LET results == DictGet(payload, "results", Null)
       IN IF ~Truthy(results) THEN Return(Obj(<<>>))
          ELSE IF results.t # "arr" THEN Raise("TypeError")
          ELSE IF FirstOrEmpty(results).t # "obj" THEN Raise("AttributeError")
          ELSE LET complaints == DictGet(FirstOrEmpty(results), "complaints", Null)
               IN IF ~Truthy(complaints) THEN Return(Obj(<<>>))
                  ELSE IF complaints.t # "arr" THEN Raise("TypeError")
                  ELSE IF FirstOrEmpty(complaints).t # "obj" THEN Raise("AttributeError")
                  ELSE LET c == FirstOrEmpty(complaints)
                       IN Return(Obj(<<
                            <<"odiNumber", Or3(DictGet(c, "nhtsaIdNumber", Null),
                                               DictGet(c, "odiId", Null),
                                               DictGet(c, "ODINumber", Null))>>,
                            <<"description", DictGet(c, "description", Null)>>,
                            <<"consumerLocation", DictGet(c, "consumerLocation", Null)>>,
                            <<"crash", Bool(Truthy(DictGet(c, "crash", Bool(FALSE))))>> >>))

\* _http_get_json under its retry decorator, from attempt number n on,
\* against the answers the endpoint gives to the successive attempts.
RECURSIVE HttpGetJson(_, _, _)
HttpGetJson(answers, n, jsonErr) ==
  LET o == HttpGetJsonOnce(Head(answers), jsonErr)
      d == RetryDecision(o, n)
  IN CASE d = "retry" -> HttpGetJson(Tail(answers), n + 1, jsonErr)
       [] d = "give_up" -> Raise("RetryError")
       [] OTHER -> o

\* The column names of a list of rows, in order of first appearance.
RECURSIVE Columns(_, _)
Columns(rows, seen) ==
  IF rows = <<>> THEN seen
  ELSE Columns(Tail(rows),
               seen \o SelectSeq([i \in 1..Len(Head(rows).v) |-> Head(rows).v[i][1]],
                                 LAMBDA c : \A k \in 1..Len(seen) : seen[k] # c))

InSeq(x, seq) == \E k \in 1..Len(seq) : seq[k] = x

\* One row of the left join: the left row and, for every column of the right
\* table but the key, the right row's value (NaN without a match), under a
\* suffixed name where the left table has the column too.
JoinRow(left, right, leftCols, rightCols) ==
  LET others == SelectSeq(rightCols, LAMBDA c : c # "odiNumber")
  IN Obj(left.v \o
         [i \in 1..Len(others) |->
            <<IF InSeq(others[i], leftCols)
                THEN others[i] \o "_enriched" ELSE others[i],
              IF right = Null THEN Null ELSE DictGet(right, others[i], Null)>>])

\* df.merge(enrich_rows, how="left", on="odiNumber", suffixes=("", "_enriched"))
RECURSIVE MergeLeft(_, _, _, _)
MergeLeft(table, rows, leftCols, rightCols) ==
  IF table = <<>> THEN <<>>
  ELSE LET left == Head(table)
           matches == SelectSeq(rows, LAMBDA r :
                        DictGet(r, "odiNumber", Null) = DictGet(left, "odiNumber", Null))
       IN (IF matches = <<>>
             THEN <<JoinRow(left, Null, leftCols, rightCols)>>
             ELSE [i \in 1..Len(matches) |->
                     JoinRow(left, matches[i], leftCols, rightCols)])
            \o MergeLeft(Tail(table), rows, leftCols, rightCols)

\* A join that keeps only the rows that have a match.
Merged_InnerJoin(table, results) ==
  IF results = <<>> THEN table
  ELSE LET rows == [i \in 1..Len(results) |-> results[i][2]]
           kept == SelectSeq(table, LAMBDA l : \E i \in 1..Len(rows) :
                     DictGet(rows[i], "odiNumber", Null) = DictGet(l, "odiNumber", Null))
       IN MergeLeft(kept, rows, Columns(table, <<>>), Columns(rows, <<>>))

\* A join driven by the enrichment rows: one row for every pair of an
\* enrichment row and a row of the table with its id, in the order of the
\* enrichment rows.
RECURSIVE JoinByRows(_, _, _, _)
JoinByRows(table, rows, leftCols, rightCols) ==
  IF rows = <<>> THEN <<>>
  ELSE LET lefts == SelectSeq(table, LAMBDA l :
                      DictGet(l, "odiNumber", Null) = DictGet(Head(rows), "odiNumber", Null))
       IN [i \in 1..Len(lefts) |-> JoinRow(lefts[i], Head(rows), leftCols, rightCols)]
            \o JoinByRows(table, Tail(rows), leftCols, rightCols)

Merged_ByResults(table, results) ==
  IF results = <<>> THEN table
  ELSE LET rows == [i \in 1..Len(results) |-> results[i][2]]
       IN JoinByRows(table, rows, Columns(table, <<>>), Columns(rows, <<>>))

\* Lines 56-59: the table the call returns, given the results dict (pairs of
\* id and row, in insertion order).
Merged(table, results) ==
  IF results = <<>> THEN table
  ELSE LET rows == [i \in 1..Len(results) |-> results[i][2]]
       IN MergeLeft(table, rows, Columns(table, <<>>), Columns(rows, <<>>))

\* The cap applied to the rows, before the rows without id are dropped.
OdiNumbers_CapCountsNulls(table, max_records) ==
  LET n == Min2(Len(table), Max2(0, max_records))
      ids == SelectSeq([i \in 1..n |-> DictGet(table[i], "odiNumber", Null)],
                       LAMBDA x : x # Null)
  IN [i \in 1..Len(ids) |-> ids[i].v]

\* df["odiNumber"].dropna().astype(int).tolist()[: max(0, int(max_records))]
OdiNumbers(table, max_records) ==
  LET ids == SelectSeq([i \in 1..Len(table) |-> DictGet(table[i], "odiNumber", Null)],
                       LAMBDA x : x # Null)
      n == Min2(Len(ids), Max2(0, max_records))
  IN [i \in 1..n |-> ids[i].v]

\* A row of the complaints table: its id (NaN is Null), and two more columns,
\* one of which the enrichment has too.
TableRow(id, i) ==
  Obj(<<<<"odiNumber", id>>, <<"summary", Num(i)>>, <<"crash", Bool(FALSE)>>>>)
TableOf(ids) == [i \in 1..Len(ids) |-> TableRow(ids[i], i)]

\* Tables: empty, without the id column, three ids, an id in two rows, a row
\* without id.
SampleTables ==
  {<<>>, <<Obj(<<<<"summary", Num(1)>>>>)>>,
   TableOf(<<Num(1), Num(2), Num(3)>>),
   TableOf(<<Num(2), Num(2)>>),
   TableOf(<<Num(1), Null, Num(2)>>)}
SampleCaps == {-1, 0, 1, 2, 3}

\* What the detail endpoint says of a complaint.
DetailBody(odi) ==
  Obj(<<<<"results", Arr(<<Obj(<<<<"complaints", Arr(<<Obj(<<
         <<"nhtsaIdNumber", Num(odi)>>,
         <<"description", Str("text")>>,
         <<"consumerLocation", Str("LAS VEGAS, NV")>>,
         <<"crash", Bool(TRUE)>> >>)>>)>>>>)>>)>>>>)

\* The answers to the attempts of one detail fetch: 503 a number of times,
\* then the complaint, no results, or a body that is null.
DetailRuns(odi) ==
  LET finals == {[status |-> 200, text |-> JsonDumps(b)] :
                   b \in {DetailBody(odi), EmptyResults, Null}}
  IN {[i \in 1..StopAfterAttempt |->
         IF i <= k THEN [status |-> 503, text |-> <<>>] ELSE f] :
        k \in 0..StopAfterAttempt, f \in finals}

Stats(requested, enriched, failed) ==
  [requested |-> requested, enriched |-> enriched, failed |-> failed]

NoOutcome == [kind |-> "none", val |-> Null, exc |-> ""]

\* Lines 28-43: the early return, or the ids cut to the cap and one task
\* submitted to the pool for each of them.
EnrichCall(table, max_records, max_workers) ==
  /\ enr.phase \in {"none", "returned"}
  /\ enr.n < MaxBatches
  /\ IF table = <<>> \/ ~InSeq("odiNumber", Columns(table, <<>>))
       THEN enr' = [NoEnr EXCEPT !.phase = "returned", !.n = enr.n + 1,
                                 !.table = table,
                                 !.max_records = max_records,
                                 !.max_workers = max_workers,
                                 !.out = [df |-> table, stats |-> Stats(0, 0, 0)]]
       ELSE LET odi_numbers == OdiNumbers(table, max_records)
            IN enr' = [NoEnr EXCEPT
                         !.phase = "running", !.n = enr.n + 1,
                         !.table = table,
                         !.max_records = max_records,
                         !.max_workers = max_workers,
                         !.odi_numbers = odi_numbers,
                         !.tasks = [i \in 1..Len(odi_numbers) |->
                                      [odi |-> odi_numbers[i], st |-> "queued",
                                       payload |-> Null, out |-> NoOutcome]]]
  /\ UNCHANGED <<cacheVars, cop, fetchVars, session, run, conc, srch, cand, freq>>

\* The tasks a worker of the pool is running.
InFlight == {k \in 1..Len(enr.tasks) : enr.tasks[k].st \in {"network", "store"}}

\* A pool that starts a thread for every task submitted.
WorkerFree_Always == enr.max_workers >= 0

\* ThreadPoolExecutor(max_workers): a task starts only on a worker that is
\* not running another one.
WorkerFree == Cardinality(InFlight) < enr.max_workers

\* A task that goes to the network without reading the cache.
TaskBegin_NoCacheRead(k) ==
  /\ enr.phase = "running"
  /\ k \in 1..Len(enr.tasks)
  /\ enr.tasks[k].st = "queued"
  /\ \A j \in 1..(k - 1) : enr.tasks[j].st # "queued"
  /\ WorkerFree
  /\ enr' = [enr EXCEPT !.tasks[k] = [@ EXCEPT !.st = "network"]]
  /\ UNCHANGED <<cacheVars, cop, fetchVars, session, run, conc, srch, cand, freq>>

\* A free worker takes the oldest queued task: _fetch_one starts, get_json
\* reads the cache, and on a hit the task is over.
TaskBegin(k) ==
  /\ enr.phase = "running"
  /\ k \in 1..Len(enr.tasks)
  /\ enr.tasks[k].st = "queued"
  /\ \A j \in 1..(k - 1) : enr.tasks[j].st # "queued"
  /\ WorkerFree
  /\ LET cached == CacheGet(files, now, DetailUrl(enr.tasks[k].odi),
                            Num(DetailTtlSeconds))
     IN enr' = [enr EXCEPT !.tasks[k] =
                  IF cached # Null
                    THEN [@ EXCEPT !.st = "done", !.payload = cached,
                                   !.out = EnrichRow(cached)]
                    ELSE [@ EXCEPT !.st = "network"]]
  /\ UNCHANGED <<cacheVars, cop, fetchVars, session, run, conc, srch, cand, freq>>

\* The HTTP attempts of a task, to the return or the raise of _http_get_json.
TaskFetched(k, answers) ==
  /\ enr.phase = "running"
  /\ k \in 1..Len(enr.tasks)
  /\ enr.tasks[k].st = "network"
  /\ LET o == HttpGetJson(answers, 1, lib)
     IN enr' = [enr EXCEPT !.tasks[k] =
                  IF o.kind = "return"
                    THEN [@ EXCEPT !.st = "store", !.payload = o.val]
                    ELSE [@ EXCEPT !.st = "done", !.out = o]]
  /\ UNCHANGED <<cacheVars, cop, fetchVars, session, run, conc, srch, cand, freq>>

\* cache.set of get_json, then enrich_complaint_from_safety_issue.
TaskStore(k) ==
  /\ enr.phase = "running"
  /\ k \in 1..Len(enr.tasks)
  /\ enr.tasks[k].st = "store"
  /\ files' = CacheSet(files, now, DetailUrl(enr.tasks[k].odi), enr.tasks[k].payload)
  /\ lastSet' = Written(DetailUrl(enr.tasks[k].odi), enr.tasks[k].payload)
  /\ enr' = [enr EXCEPT !.tasks[k] =
               [@ EXCEPT !.st = "done", !.out = EnrichRow(enr.tasks[k].payload)]]
  /\ UNCHANGED <<now, cop, fetchVars, session, run, conc, srch, cand, freq>>

\* A failed task making the call forget the rows it has.
Gather_FailureForgets(e, k, o) ==
  IF o.kind = "return" /\ Truthy(o.val)
    THEN [e EXCEPT !.collected = Append(@, k),
                   !.results = PairsSet(@, e.tasks[k].odi, o.val)]
    ELSE [e EXCEPT !.collected = Append(@, k), !.results = <<>>,
                   !.failed = @ + 1]

\* Lines 45-53: the result of task k is o: a row that is not empty goes to
\* the results under the task's id, anything else is counted as failed.
Gather(e, k, o) ==
  IF o.kind = "return" /\ Truthy(o.val)
    THEN [e EXCEPT !.collected = Append(@, k),
                   !.results = PairsSet(@, e.tasks[k].odi, o.val)]
    ELSE [e EXCEPT !.collected = Append(@, k), !.failed = @ + 1]

\* Lines 44-53: as_completed hands over a finished task.
CollectTask(k) ==
  /\ enr.phase = "running"
  /\ k \in 1..Len(enr.tasks)
  /\ enr.tasks[k].st = "done"
  /\ ~InSeq(k, enr.collected)
  /\ enr' = Gather(enr, k, enr.tasks[k].out)
  /\ UNCHANGED <<cacheVars, cop, fetchVars, session, run, conc, srch, cand, freq>>

\* Lines 55-71: every task was handed over, the pool is shut down, the
\* results are merged and the call returns.
EnrichReturn ==
  /\ enr.phase = "running"
  /\ Len(enr.collected) = Len(enr.tasks)
  /\ enr' = [enr EXCEPT
               !.phase = "returned",
               !.out = [df |-> Merged(enr.table, enr.results),
                        stats |-> Stats(Len(enr.odi_numbers), Len(enr.results),
                                        enr.failed)]]
  /\ UNCHANGED <<cacheVars, cop, fetchVars, session, run, conc, srch, cand, freq>>

NextEnrich ==
  \/ \E t \in SampleTables, c \in SampleCaps, w \in 1..MaxWorkers : EnrichCall(t, c, w)
  \/ \E k \in 1..Len(enr.tasks) : TaskBegin(k)
  \/ \E k \in 1..Len(enr.tasks) :
       \E a \in DetailRuns(enr.tasks[k].odi) : TaskFetched(k, a)
  \/ \E k \in 1..Len(enr.tasks) : TaskStore(k)
  \/ \E k \in 1..Len(enr.tasks) : CollectTask(k)
  \/ EnrichReturn

SpecEnrich == Init /\ [][NextEnrich]_vars

\* The enabling conditions of TaskBegin and of TaskStore: their guards.
CanBegin ==
  /\ enr.phase = "running"
  /\ WorkerFree
  /\ \E k \in 1..Len(enr.tasks) : enr.tasks[k].st = "queued"

CanStore ==
  /\ enr.phase = "running"
  /\ \E k \in 1..Len(enr.tasks) : enr.tasks[k].st = "store"

\* The pool's threads and the thread in as_completed are scheduled by the
\* operating system, every request has a timeout and the retries stop after
\* the third attempt: a step of a running call that stays possible is taken.
\* That is weak fairness of each step; for TaskBegin and TaskStore it is
\* written out, WF_vars(A) being []<>~ENABLED <<A>>_vars \/ []<><<A>>_vars,
\* with the guard for the enabling condition.
EnrichFairness ==
  /\ WF_vars(\E k \in 1..Len(enr.tasks) :
               \E a \in DetailRuns(enr.tasks[k].odi) : TaskFetched(k, a))
  /\ WF_vars(\E k \in 1..Len(enr.tasks) : CollectTask(k))
  /\ WF_vars(EnrichReturn)
  /\ ([]<>~CanBegin \/ []<><<\E k \in 1..Len(enr.tasks) : TaskBegin(k)>>_vars)
  /\ ([]<>~CanStore \/ []<><<\E k \in 1..Len(enr.tasks) : TaskStore(k)>>_vars)

\* The calls followed to their end under fairness: the first MaxLiveBatches
\* of them.
NextEnrichLive == NextEnrich /\ enr'.n <= MaxLiveBatches

SpecEnrichLive == Init /\ [][NextEnrichLive]_vars /\ EnrichFairness

(***************************************************************************)
(* Claims about the enrichment, checked under SpecEnrich.                  *)
(***************************************************************************)
Returned == enr.phase = "returned"

\* Task k ended with a row that is not empty.
Succeeded(k) ==
  /\ enr.tasks[k].st = "done"
  /\ enr.tasks[k].out.kind = "return"
  /\ Truthy(enr.tasks[k].out.val)

\* The rows of the returned table that come from row i of the input.
RowsOf(i) ==
  SelectSeq(enr.out.df,
            LAMBDA r : DictGet(r, "summary", Null) = DictGet(enr.table[i], "summary", Null))

\* Row i of the input is in the returned table with the enrichment columns
\* filled from the row of task k.
EnrichedBy(i, k) ==
  \E j \in 1..Len(RowsOf(i)) :
    /\ DictGet(RowsOf(i)[j], "description", Null)
         = DictGet(enr.tasks[k].out.val, "description", Null)
    /\ DictGet(RowsOf(i)[j], "description", Null) # Null
    /\ DictGet(RowsOf(i)[j], "crash_enriched", Null)
         = DictGet(enr.tasks[k].out.val, "crash", Null)

\* The running call has a step to take: a task to start, to go on with or
\* to collect, or its return.
CanGoOn ==
  \/ InFlight # {}
  \/ \E k \in 1..Len(enr.tasks) :
       /\ enr.tasks[k].st = "queued"
       /\ Cardinality(InFlight) < enr.max_workers
  \/ \E k \in 1..Len(enr.tasks) :
       enr.tasks[k].st = "done" /\ ~InSeq(k, enr.collected)
  \/ Len(enr.collected) = Len(enr.tasks)

\* C14: whatever subset of the detail fetches raises or returns an empty
\* record, enrich_complaints_df goes on to its return with a merged table and
\* counters, and the row of every task that succeeded is collected and
\* merged.
C14_FailuresStayLocal ==
  /\ enr.phase = "running" => CanGoOn
  /\ Returned /\ enr.tasks # <<>> =>
       /\ Len(enr.collected) = Len(enr.tasks)
       /\ enr.out.stats.requested = Len(enr.tasks)
       /\ Len(enr.out.df) >= Len(enr.table)
       /\ \A k \in 1..Len(enr.tasks) :
            Succeeded(k) =>
              /\ \E r \in 1..Len(enr.results) : enr.results[r][1] = enr.tasks[k].odi
              /\ \A i \in 1..Len(enr.table) :
                   DictGet(enr.table[i], "odiNumber", Null) = Num(enr.tasks[k].odi)
                     => EnrichedBy(i, k)

\* Of three tasks one raised after its retries, one got no results, one
\* succeeded, and the call has returned.
C14_Witness ==
  /\ Returned
  /\ Len(enr.tasks) = 3
  /\ \E a, b, c \in 1..3 :
       /\ enr.tasks[a].out.exc = "RetryError"
       /\ enr.tasks[b].out.kind = "return" /\ ~Truthy(enr.tasks[b].out.val)
       /\ Succeeded(c)
       /\ enr.collected[3] = a
  /\ enr.out.stats = Stats(3, 1, 2)

\* The example: ids 1, 2, 3, a cap of 3 or more, and only the fetch for id 2
\* gave a row.
OnlySecondEnriched ==
  /\ Returned
  /\ enr.table = TableOf(<<Num(1), Num(2), Num(3)>>)
  /\ enr.max_records >= 3
  /\ Succeeded(2) /\ ~Succeeded(1) /\ ~Succeeded(3)

EnrichmentColumns == <<"description", "consumerLocation", "crash_enriched">>

\* Three rows, the second with the enrichment columns filled, the first and
\* third with nulls in them.
SecondRowFilled ==
  /\ Len(enr.out.df) = 3
  /\ \A i \in 1..3 :
       /\ DictGet(enr.out.df[i], "odiNumber", Null) = Num(i)
       /\ \A c \in 1..Len(EnrichmentColumns) :
            (DictGet(enr.out.df[i], EnrichmentColumns[c], Null) # Null) <=> (i = 2)
  /\ DictGet(enr.out.df[2], "description", Null) = Str("text")
  /\ DictGet(enr.out.df[2], "crash_enriched", Null) = Bool(TRUE)

\* C15 as the specification states it: in the example the counters are
\* enriched = 1, failed = 0, requested = 3.
C15_MergeExample ==
  OnlySecondEnriched => SecondRowFilled /\ enr.out.stats = Stats(3, 1, 0)

\* C15: for ids 1, 2, 3, a cap of 3 or more and a row only for id 2, the call
\* returns three rows of which the second has the enrichment columns filled
\* and the others have nulls there, with counters requested = 3,
\* enriched = 1 and failed = 2: the two fetches without a row are the failed
\* ones.
C15_MergeExampleCounted ==
  OnlySecondEnriched => SecondRowFilled /\ enr.out.stats = Stats(3, 1, 2)

\* The example has happened, with one of the other fetches raising and one
\* answering without results.
C15_Witness ==
  /\ OnlySecondEnriched
  /\ \E a, b \in {1, 3} :
       /\ enr.tasks[a].out.kind = "raise"
       /\ enr.tasks[b].out.kind = "return"

\* The call's results and counter had its tasks been collected in the order
\* of their dispatch, from task k on.
RECURSIVE GatherFrom(_, _)
GatherFrom(e, k) ==
  IF k > Len(e.tasks) THEN e
  ELSE GatherFrom(Gather(e, k, e.tasks[k].out), k + 1)

InDispatchOrder ==
  GatherFrom([enr EXCEPT !.collected = <<>>, !.results = <<>>, !.failed = 0], 1)

\* Row i of the returned table is row i of the input followed by the columns
\* the enrichment has added.
KeepsRow(i) ==
  /\ Len(enr.out.df[i].v) >= Len(enr.table[i].v)
  /\ SubSeq(enr.out.df[i].v, 1, Len(enr.table[i].v)) = enr.table[i].v
  /\ enr.results # <<>> => Len(enr.out.df[i].v) > Len(enr.table[i].v)
  /\ \A c \in (Len(enr.table[i].v) + 1)..Len(enr.out.df[i].v) :
       ~InSeq(enr.out.df[i].v[c][1], Columns(enr.table, <<>>))

\* C16: for every table and every order in which the detail fetches are
\* collected, the returned table has the rows of the input, each once and in
\* the input's order, with their columns unchanged and the enrichment
\* columns added under names the input does not have; the table and the
\* counters are those of a collection in dispatch order, whatever the order
\* of collection was.
C16_MergeKeepsRowsAndOrder ==
  Returned =>
    /\ Len(enr.out.df) = Len(enr.table)
    /\ \A i \in 1..Len(enr.table) : KeepsRow(i)
    /\ enr.out.df = Merged(enr.table, InDispatchOrder.results)
    /\ enr.out.stats = Stats(Len(enr.tasks), Len(InDispatchOrder.results),
                             InDispatchOrder.failed)

\* A call has returned whose tasks were collected against the order of their
\* dispatch, the rows of the third and the first id both found.
C16_Witness ==
  /\ Returned
  /\ Len(enr.table) = 3
  /\ Len(enr.results) >= 2
  /\ enr.results[1][1] > enr.results[2][1]
  /\ enr.collected[1] = 3

\* The ids of the table's rows that have one, in table order.
IdsOfTable ==
  IF enr.table = <<>> \/ ~InSeq("odiNumber", Columns(enr.table, <<>>)) THEN <<>>
  ELSE SelectSeq([i \in 1..Len(enr.table) |-> enr.table[i].v[1][2]],
                 LAMBDA x : x # Null)

\* min(max_records, number of ids), and none for a cap of zero or less.
CapCount ==
  IF enr.max_records <= 0 THEN 0
  ELSE IF enr.max_records < Len(IdsOfTable) THEN enr.max_records
  ELSE Len(IdsOfTable)

Dispatched == {enr.tasks[k].odi : k \in 1..Len(enr.tasks)}

\* Row i of the returned table has nothing from the enrichment.
NotEnriched(i) ==
  \A c \in (Len(enr.table[i].v) + 1)..Len(enr.out.df[i].v) :
    enr.out.df[i].v[c][2] = Null

\* C17: the detail fetches dispatched are those for the first
\* min(max_records, number of ids) ids of the table that are not null, in
\* table order, and none for max_records <= 0; an id that is not among them
\* has no task and its rows come back without enrichment; the call returns,
\* and requested is the number of tasks.
C17_EnrichmentCap ==
  enr.phase \in {"running", "returned"} =>
    /\ Len(enr.tasks) = CapCount
    /\ \A k \in 1..Len(enr.tasks) : enr.tasks[k].odi = IdsOfTable[k].v
    /\ enr.phase = "running" => CanGoOn
    /\ Returned =>
         /\ enr.out.stats.requested = CapCount
         /\ Len(enr.out.df) = Len(enr.table)
         /\ \A i \in 1..Len(enr.table) :
              (\A k \in 1..Len(enr.tasks) :
                 DictGet(enr.table[i], "odiNumber", Null) # Num(enr.tasks[k].odi))
                => NotEnriched(i)

\* Three ids and a cap of two: two tasks, both rows found, the third row
\* returned without enrichment.
C17_Witness ==
  /\ Returned
  /\ Len(IdsOfTable) = 3
  /\ enr.max_records = 2
  /\ Dispatched = {1, 2}
  /\ Len(enr.results) = 2
  /\ enr.out.stats.requested = 2
  /\ NotEnriched(3)
  /\ ~NotEnriched(1)

\* Every task is over and was handed over once.
AllCollected ==
  /\ Len(enr.collected) = Len(enr.tasks)
  /\ \A k \in 1..Len(enr.tasks) :
       /\ enr.tasks[k].st = "done"
       /\ Cardinality({j \in 1..Len(enr.collected) : enr.collected[j] = k}) = 1

\* C18: at every moment of enrich_complaints_df at most max_workers detail
\* fetches are in flight, a call that has returned has every task it
\* dispatched completed and collected, and a running call does return.
C18_BoundedConcurrency ==
  /\ [](Cardinality(InFlight) <= enr.max_workers)
  /\ [](Returned => AllCollected)
  /\ (enr.phase = "running") ~> Returned

\* Every worker of a pool of two is busy and a third task waits for one.
C18_Witness ==
  /\ enr.phase = "running"
  /\ enr.max_workers = 2
  /\ Cardinality(InFlight) = 2
  /\ Len(enr.tasks) = 3
  /\ enr.tasks[3].st = "queued"

\* Two tasks of the batch are about to write the cache entry of one id.
SameKeyWriters ==
  \E j, k \in 1..Len(enr.tasks) :
    /\ j # k
    /\ enr.tasks[j].odi = enr.tasks[k].odi
    /\ enr.tasks[j].st = "store"
    /\ enr.tasks[k].st = "store"

\* C19: within one batch no two detail-fetch tasks are for the same complaint
\* id, and so no two tasks of a batch write the same cache key at the same
\* time, also for a table in which an id is in more than one row.
C19_IdsDeduplicated ==
  /\ \A j, k \in 1..Len(enr.tasks) :
       j # k => enr.tasks[j].odi # enr.tasks[k].odi
  /\ ~SameKeyWriters

(***************************************************************************)
(* DiskCache used by several threads at once.  get is exists() and then    *)
(* read_text() with the parse; set builds the text and then write_text(),  *)
(* which opens the file for writing (it is created or cut to nothing) and  *)
(* writes the text from the start of the file.  Each thread has its own    *)
(* file object; no lock is taken.                                          *)
(***************************************************************************)
ConcKeys == CacheKeys
ConcValues == {EmptyResults, SomeResults}

\* What a write of text at the start of a file leaves in it.
Overlay(text, content) == text \o SubSeq(content, Len(text) + 1, Len(content))

\* Lines 50-51: the path and the text of the entry.
ConcSetBegin(t, key, value) ==
  /\ conc.th[t].pc \in {"idle", "done"}
  /\ conc' = [conc EXCEPT
                !.th[t] = [op |-> "set", pc |-> "open", key |-> key,
                           value |-> value,
                           text |-> CacheSet(<<>>, now, key, value)[PathForKey(key)],
                           result |-> Null],
                !.begun = @ \cup {<<key, value>>}]
  /\ UNCHANGED <<cacheVars, cop, fetchVars, session, run, enr, srch, cand, freq>>

\* Line 52, write_text: open(path, "w").
ConcSetOpen(t) ==
  /\ conc.th[t].pc = "open"
  /\ files' = (PathForKey(conc.th[t].key) :> <<>>) @@ files
  /\ conc' = [conc EXCEPT !.th[t].pc = "write"]
  /\ UNCHANGED <<now, lastSet, cop, fetchVars, session, run, enr, srch, cand, freq>>

\* Line 52, write_text: the text is written and the file closed; set returns.
ConcSetWrite(t) ==
  /\ conc.th[t].pc = "write"
  /\ files' = (PathForKey(conc.th[t].key) :>
                 Overlay(conc.th[t].text, files[PathForKey(conc.th[t].key)])) @@ files
  /\ conc' = [conc EXCEPT !.th[t].pc = "done",
                          !.last = (conc.th[t].key :> conc.th[t].value) @@ @]
  /\ UNCHANGED <<now, lastSet, cop, fetchVars, session, run, enr, srch, cand, freq>>

\* Lines 35-38: get looks whether the file exists.
ConcGetBegin(t, key) ==
  /\ conc.th[t].pc \in {"idle", "done"}
  /\ conc' = [conc EXCEPT
                !.th[t] = [op |-> "get",
                           pc |-> IF PathForKey(key) \in DOMAIN files
                                    THEN "read" ELSE "done",
                           key |-> key, value |-> Null, text |-> <<>>,
                           result |-> Null]]
  /\ UNCHANGED <<cacheVars, cop, fetchVars, session, run, enr, srch, cand, freq>>

\* Lines 39-47: the file is read and parsed; get returns.
ConcGetRead(t) ==
  /\ conc.th[t].pc = "read"
  /\ conc' = [conc EXCEPT
                !.th[t].pc = "done",
                !.th[t].result = CacheGet(files, now, conc.th[t].key, Null)]
  /\ UNCHANGED <<cacheVars, cop, fetchVars, session, run, enr, srch, cand, freq>>

NextConc ==
  \/ \E t \in Threads, k \in ConcKeys, v \in ConcValues : ConcSetBegin(t, k, v)
  \/ \E t \in Threads : ConcSetOpen(t)
  \/ \E t \in Threads : ConcSetWrite(t)
  \/ \E t \in Threads, k \in ConcKeys : ConcGetBegin(t, k)
  \/ \E t \in Threads : ConcGetRead(t)

SpecConc == Init /\ [][NextConc]_vars

\* A thread is inside set for the key.
Writing(key) ==
  \E t \in Threads :
    /\ conc.th[t].op = "set"
    /\ conc.th[t].key = key
    /\ conc.th[t].pc \in {"open", "write"}

\* Nothing was ever set for the key and its file does not exist.
Untouched(key) ==
  (\A v \in ConcValues : <<key, v>> \notin conc.begun)
    => PathForKey(key) \notin DOMAIN files

\* A get that has returned gave absent or a value a set was given for its
\* key.
GetsSound ==
  \A t \in Threads :
    conc.th[t].op = "get" /\ conc.th[t].pc = "done" =>
      \/ conc.th[t].result = Null
      \/ <<conc.th[t].key, conc.th[t].result>> \in conc.begun

\* With no writer inside set for the key, the entry holds the value of the
\* set that wrote last.
LastWriteWins ==
  \A key \in DOMAIN conc.last :
    ~Writing(key) => CacheGet(files, now, key, Null) = conc.last[key]

\* C20: under every interleaving of the steps of DiskCache.get and
\* DiskCache.set of concurrent threads, a key nobody sets is not affected, a
\* get returns absent or a value some set was given for its key, and once
\* the writers of a key have finished the entry holds the value of the last
\* write.
C20_ConcurrentCacheSafe ==
  /\ \A key \in ConcKeys : Untouched(key)
  /\ GetsSound
  /\ LastWriteWins

(***************************************************************************)
(* Claims about the cache used by one caller, checked under SpecCache.     *)
(***************************************************************************)
\* get of the key returns absent for every ttl.
AbsentForEveryTtl(key) ==
  \A t \in SampleTtls : CacheGet(files, now, key, t) = Absent

GetWithNegativeTtl ==
  /\ cop.op = "get"
  /\ cop.ttl.t = "num" /\ cop.ttl.v < 0
  /\ LastSetOf(cop.key) # NoSet

\* C22: for a key that has been set and not cleared since, a get with a
\* negative ttl returns the stored value, however long ago the set was.
C22_NegativeTtlNeverExpires ==
  GetWithNegativeTtl => cop.result = LastSetOf(cop.key).value

\* Such a get of an entry older than every other ttl of the model has
\* returned the value.
C22_Witness ==
  /\ GetWithNegativeTtl
  /\ cop.at - LastSetOf(cop.key).at = MaxTime
  /\ MaxTime > 1 * TicksPerSecond
  /\ cop.result = SomeResults

\* The age of the key's entry, in ticks.
AgeOf(key) == now - LastSetOf(key).at

\* The text the last set of the key wrote.
TextOfLastSet(key) ==
  CacheSet(<<>>, LastSetOf(key).at, key, LastSetOf(key).value)[PathForKey(key)]

\* The last operation was a get that found the entry older than its ttl and
\* reported absent.
StaleGet ==
  /\ cop.op = "get"
  /\ cop.at = now
  /\ LastSetOf(cop.key) # NoSet
  /\ cop.ttl.t = "num" /\ cop.ttl.v >= 0
  /\ AgeOf(cop.key) > cop.ttl.v * TicksPerSecond
  /\ cop.result = Absent

\* The entry of a key that is set is the file the set wrote, and a get with
\* a ttl that is not less than its age returns the value.
EntryKept(key) ==
  /\ PathForKey(key) \in DOMAIN files
  /\ files[PathForKey(key)] = TextOfLastSet(key)
  /\ \A t \in SampleTtls :
       t.t = "num" /\ t.v * TicksPerSecond >= AgeOf(key)
         => CacheGet(files, now, key, t) = LastSetOf(key).value

\* C23: a get that reports absent because the entry is older than ttl leaves
\* the entry, data and time of fetch, as it was on disk, so that a later get
\* of the key with a ttl not less than the entry's age returns the stored
\* value; the directory changes only in a set or a clear.
C23_StalenessDecidedAtRead ==
  /\ [](\A key \in CacheKeys : LastSetOf(key) # NoSet => EntryKept(key))
  /\ [][files' # files => cop'.op \in {"set", "clear"} /\ cop'.at = now]_vars
  /\ [][cop'.op = "get" /\ cop' # cop => files' = files]_vars

\* A get with ttl 0 has just reported an entry with data absent, and a ttl
\* of the model is large enough to read it.
C23_Witness ==
  /\ StaleGet
  /\ cop.ttl.v = 0
  /\ LastSetOf(cop.key).value = SomeResults
  /\ EntryKept(cop.key)
  /\ CacheGet(files, now, cop.key, Num(1)) = SomeResults

(***************************************************************************)
(* The cache with entry files that set did not write: a file cut short by  *)
(* a crash during write_text, bytes that do not decode, JSON that is not   *)
(* the object set writes.                                                  *)
(***************************************************************************)
FailOpenUrl == RecallsUrl(SampleMake, SampleModel, SampleYear)

\* Texts on which get fails: an empty file, a cut one, bytes that are not
\* UTF-8 (read_text raises), JSON that is a list or null (no .get), and an
\* object whose "_fetched_at" float() refuses.
UnusableTexts ==
  {<<>>, BadText, <<[t |-> "bytes", v |-> "ff"]>>,
   JsonDumps(Arr(<<Num(1)>>)), JsonDumps(Null),
   JsonDumps(Obj(<<<<"_fetched_at", Str("x")>>, <<"data", SomeResults>>>>)),
   JsonDumps(Obj(<<<<"_fetched_at", Null>>, <<"data", SomeResults>>>>))}

\* An object without "_fetched_at": get takes 0 for the time of fetch.
UndatedText == JsonDumps(Obj(<<<<"data", SomeResults>>>>))

DamagedTexts == UnusableTexts \cup {UndatedText}

\* The entry file of a key is replaced by a damaged one, between two calls.
Damage(key, text) ==
  /\ Idle
  /\ files' = (PathForKey(key) :> text) @@ files
  /\ cop' = [NoCacheOp EXCEPT !.op = "damage", !.key = key, !.at = now]
  /\ UNCHANGED <<now, lastSet, fetchVars, appVars>>

FailOpenResponses == AnswersWith({SomeResults}, {503})

NextFailOpen ==
  \/ \E text \in DamagedTexts : Damage(FailOpenUrl, text)
  \/ \E t \in SampleTtls : DoGet(FailOpenUrl, t)
  \/ \E t \in FetchTtls : GetJsonCall("get_json", Null, FailOpenUrl, t, TRUE)
  \/ \E r \in FailOpenResponses : HttpAttempt(r)
  \/ Backoff
  \/ GetJsonStore

SpecFailOpen == Init /\ [][NextFailOpen]_vars

\* The entry file of the key is missing or one get cannot use.
NoUsableEntry(fs, key) ==
  PathForKey(key) \in DOMAIN fs => fs[PathForKey(key)] \in UnusableTexts

MaxDocs == 3

\* Scores are 0, 1/ScoreSteps, ..., 1.
ScoreSteps == 2

\* TfidfVectorizer(..., min_df=1, max_df=0.98)
MinDf == 1
MaxDfPercent == 98

\* Some words of the "english" stop list.
StopWords == {<<"t", "h", "e">>, <<"i", "s">>}

\* token_pattern (?u)\b\w\w+\b on the lowercased text: the runs of two or
\* more word characters.
IsWord(c) == IsDigit(c) \/ IsUpper(c) \/ IsLower(c)
RECURSIVE WordRuns(_, _)
WordRuns(s, cur) ==
  IF s = <<>> THEN (IF cur = <<>> THEN <<>> ELSE <<cur>>)
  ELSE IF IsWord(Head(s)) THEN WordRuns(Tail(s), Append(cur, Head(s)))
  ELSE (IF cur = <<>> THEN <<>> ELSE <<cur>>) \o WordRuns(Tail(s), <<>>)
Tokens(s) == SelectSeq(WordRuns(Lower(s), <<>>), LAMBDA w : Len(w) >= 2)

\* The analyzer: stop words dropped, then unigrams and bigrams
\* (ngram_range=(1, 2)).
Analyzer(s) ==
  LET kept == SelectSeq(Tokens(s), LAMBDA w : w \notin StopWords)
  IN {<<kept[i]>> : i \in 1..Len(kept)}
       \cup {<<kept[i], kept[i + 1]>> : i \in 1..(Len(kept) - 1)}

\* Narratives, corpora, queries and top_k values of the model.
Brake == <<"b", "r", "a", "k", "e">>
BrakeFire == <<"B", "r", "a", "k", "e", " ", "f", "i", "r", "e">>
SampleTexts == {Null, PyStr(<<>>), PyStr(<<"T", "h", "e">>), PyStr(Brake),
                PyStr(BrakeFire)}
SampleCorpora == UNION {[1..n -> SampleTexts] : n \in 0..MaxDocs}
SampleQueries == {Null, PyStr(<<>>), PyStr(<<" ", " ">>), PyStr(<<"T", "h", "e">>),
                  PyStr(<<" ", "f", "i", "r", "e">>), PyStr(Brake)}
SampleTopK == {-1, 0, 1, 2, MaxDocs + 2}

\* The analyzer on the strings of the model, worked out once.
AnalyzerTable ==
  [s \in {IF Truthy(t) THEN t.v ELSE <<>> : t \in SampleTexts}
          \cup {Strip(IF Truthy(q) THEN q.v ELSE <<>>) : q \in SampleQueries}
     |-> Analyzer(s)]
Terms(s) == AnalyzerTable[s]

\* cleaned = [(t or "") for t in texts]
Cleaned(texts) ==
  [i \in 1..Len(texts) |-> IF Truthy(texts[i]) THEN texts[i].v ELSE <<>>]

\* vectorizer.fit_transform(cleaned): the vocabulary kept, or the ValueError
\* raised (no term at all; max_df * n_doc below min_df; every term pruned).
FitTransform(cleaned) ==
  LET n_doc == Len(cleaned)
      vocabulary == UNION {Terms(cleaned[i]) : i \in 1..n_doc}
      df(t) == Cardinality({i \in 1..n_doc : t \in Terms(cleaned[i])})
      kept == {t \in vocabulary :
                 df(t) * 100 <= MaxDfPercent * n_doc /\ df(t) >= MinDf}
  IN IF vocabulary = {} THEN [raised |-> "empty vocabulary", vocabulary |-> {}]
     ELSE IF MaxDfPercent * n_doc < MinDf * 100
       THEN [raised |-> "max_df below min_df", vocabulary |-> {}]
     ELSE IF kept = {} THEN [raised |-> "no terms remain", vocabulary |-> {}]
     ELSE [raised |-> "", vocabulary |-> kept]

\* fit_transform on the corpora of the model, worked out once.
FitTable == [texts \in SampleCorpora |-> FitTransform(Cleaned(texts))]

\* build_index(texts): an index, or the error of fit_transform, which
\* nothing catches.
BuildIndex(texts) ==
  /\ LET cleaned == Cleaned(texts)
         fit == FitTable[texts]
     IN srch' = [NoSearch EXCEPT
                   !.index = [built |-> IF fit.raised = "" THEN "ok" ELSE "raised",
                              texts |-> cleaned,
                              vocabulary |-> fit.vocabulary],
                   !.raised = IF fit.raised = "" THEN "" ELSE "ValueError",
                   !.out = IF fit.raised = "" THEN NoSearch.out
                           ELSE [kind |-> "raise", pairs |-> <<>>]]
  /\ UNCHANGED <<cacheVars, cop, fetchVars, session, run, enr, conc, cand, freq>>

\* cosine_similarity(q_vec, index.matrix).ravel(): one score per document.
Similarities(q, index) ==
  LET n == Len(index.texts)
      shared(i) == Terms(q) \cap index.vocabulary \cap Terms(index.texts[i])
  IN {sims \in [1..n -> 0..ScoreSteps] :
        /\ \A i \in 1..n : sims[i] = 0 <=> shared(i) = {}
        /\ \A i, j \in 1..n : index.texts[i] = index.texts[j] => sims[i] = sims[j]}

\* np.argpartition(a, kth), kth not empty: the orders of the positions in
\* which every place of kth holds what a full sort would put there, nothing
\* larger before it and nothing smaller after it.
ArgPartition(sims, kth) ==
  LET n == Len(sims)
  IN {p \in [1..n -> 1..n] :
        /\ \A i, j \in 1..n : i # j => p[i] # p[j]
        /\ \A k \in kth : \A j \in 1..n :
             /\ j < k => -sims[p[j]] <= -sims[p[k]]
             /\ j > k => -sims[p[j]] >= -sims[p[k]]}

\* seq[:k]
Slice(seq, k) ==
  IF k >= 0 THEN SubSeq(seq, 1, IF k < Len(seq) THEN k ELSE Len(seq))
  ELSE SubSeq(seq, 1, Len(seq) + k)

\* sorted(pairs, key=lambda x: x[1], reverse=True): stable, equal scores
\* stay in the order they came in.
RECURSIVE InsertByScore(_, _)
InsertByScore(sorted, x) ==
  IF sorted = <<>> THEN <<x>>
  ELSE IF Head(sorted)[2] >= x[2]
    THEN <<Head(sorted)>> \o InsertByScore(Tail(sorted), x)
  ELSE <<x>> \o sorted
RECURSIVE SortedByScore(_, _)
SortedByScore(pairs, sorted) ==
  IF pairs = <<>> THEN sorted
  ELSE SortedByScore(Tail(pairs), InsertByScore(sorted, Head(pairs)))

\* if not q
IsBlank_Never(q) == FALSE
IsBlank(q) == q = <<>>

\* The end of a search call.
SearchEnded(s, pairs) == [s EXCEPT !.out = [kind |-> "return", pairs |-> pairs]]

\* search(query, index, top_k), index being what build_index returned.
\* Positions count from 0.  With top_k below 1 the list of places given to
\* argpartition is empty: numpy either refuses it (TypeError) or leaves the
\* order open.
Search(query, top_k0) ==
  /\ srch.index.built = "ok"
  /\ LET q == Strip(IF Truthy(query) THEN query.v ELSE <<>>)
         s0 == [srch EXCEPT !.called = TRUE, !.query = query, !.top_k = top_k0,
                            !.sims = <<>>, !.touched = FALSE, !.raised = ""]
     IN IF IsBlank(q) THEN srch' = SearchEnded(s0, <<>>)
        ELSE \E sims \in Similarities(q, srch.index) :
          LET s1 == [s0 EXCEPT !.touched = TRUE, !.sims = sims]
              size == Len(sims)
              top_k == IF top_k0 < size THEN top_k0 ELSE size
              kth == 1..top_k
          IN IF size = 0 THEN srch' = SearchEnded(s1, <<>>)
             ELSE \/ /\ kth = {}
                     /\ srch' = [s1 EXCEPT !.raised = "TypeError",
                                           !.out = [kind |-> "raise", pairs |-> <<>>]]
                  \/ \E p \in ArgPartition(sims, kth) :
                       LET idxs == Slice(p, top_k)
                           pairs == [i \in 1..Len(idxs) |-> <<idxs[i] - 1, sims[idxs[i]]>>]
                       IN srch' = SearchEnded(s1, SortedByScore(pairs, <<>>))
  /\ UNCHANGED <<cacheVars, cop, fetchVars, session, run, enr, conc, cand, freq>>

NextSearch ==
  \/ \E texts \in SampleCorpora : BuildIndex(texts)
  \/ \E query \in SampleQueries, top_k \in SampleTopK : Search(query, top_k)

SpecSearch == Init /\ [][NextSearch]_vars

\* The query of the last search is null, empty or blank.
EmptyQuery == ~Truthy(srch.query) \/ Strip(srch.query.v) = <<>>

\* No narrative of the corpus has a term the index could keep.
NothingIndexable ==
  LET texts == srch.index.texts
  IN \A t \in UNION {Terms(texts[i]) : i \in 1..Len(texts)} :
       \A i \in 1..Len(texts) : t \in Terms(texts[i])

\* C25: build_index followed by search never raises; for an empty corpus,
\* for a corpus without an indexable term and for an empty query the outcome
\* is an empty result.
C25_SearchNeverRaises ==
  /\ srch.raised = ""
  /\ srch.called /\ EmptyQuery => srch.out = [kind |-> "return", pairs |-> <<>>]
  /\ srch.index.built # "none" /\ (srch.index.texts = <<>> \/ NothingIndexable)
       => srch.index.built = "ok"

\* C26: a search with a null, empty or blank query returns the empty list,
\* whatever the index and top_k are, and the index is not used for it.
C26_EmptyQueryReturnsEmpty ==
  srch.called /\ EmptyQuery =>
    /\ srch.out = [kind |-> "return", pairs |-> <<>>]
    /\ ~srch.touched
    /\ srch.sims = <<>>

\* A blank query was searched with a top_k above the corpus size in an index
\* of two narratives.
C26_Witness ==
  /\ srch.called
  /\ srch.query = PyStr(<<" ", " ">>)
  /\ srch.top_k > Len(srch.index.texts)
  /\ Len(srch.index.texts) = 2
  /\ srch.out.kind = "return"

\* The pairs returned are the top_k best of the corpus: as many as top_k
\* clamped to the corpus size, distinct valid positions each with its own
\* score, nothing left out that scores higher, best first.
TopKSelected ==
  LET pairs == srch.out.pairs
      n == Len(srch.index.texts)
      chosen == {pairs[i][1] : i \in 1..Len(pairs)}
  IN /\ srch.out.kind = "return"
     /\ Len(pairs) = (IF srch.top_k < n THEN srch.top_k ELSE n)
     /\ \A i \in 1..Len(pairs) :
          /\ pairs[i][1] \in 0..(n - 1)
          /\ pairs[i][2] = srch.sims[pairs[i][1] + 1]
     /\ \A i, j \in 1..Len(pairs) : i # j => pairs[i][1] # pairs[j][1]
     /\ \A d \in (0..(n - 1)) \ chosen : \A i \in 1..Len(pairs) :
          srch.sims[d + 1] <= pairs[i][2]
     /\ \A i \in 1..(Len(pairs) - 1) : pairs[i][2] >= pairs[i + 1][2]

\* C27: for a query that is not empty, search returns min(top_k, corpus
\* size) pairs of distinct valid positions with the highest scores of the
\* corpus, ordered by non-increasing score.
C27_TopKSelection == srch.called /\ ~EmptyQuery => TopKSelected

\* The same for a top_k of at least 1.
TopKSelectedFromOne == srch.called /\ ~EmptyQuery /\ srch.top_k >= 1 => TopKSelected

(***************************************************************************)
(* _candidate_models on its own: the requested model and the names vPIC    *)
(* lists for the make are the inputs, the candidate list is the output.    *)
(***************************************************************************)
\* A pool of the model has at most MaxSmallPool names, or all names but one,
\* or all of them.
MaxSmallPool == 2

\* Names for the requested model "535i": the two series, the series in
\* capitals, the model in another case and with a dash, and trims around it.
Series5Upper == <<"5", " ", "S", "E", "R", "I", "E", "S">>
Dash535 == <<"5", "3", "5", "-", "i">>
Is535 == <<"5", "3", "5", "i", "s">>
D535 == <<"5", "3", "5", "d">>
M535 == <<"M", "5", "3", "5", "i">>
Xi535 == <<"5", "3", "5", "x", "i">>
ResolverNames == PoolNames \cup {Series5Upper, Dash535, Is535, D535, M535, Xi535}
ResolverPools ==
  {pool \in SUBSET ResolverNames :
     \/ Cardinality(pool) <= MaxSmallPool
     \/ Cardinality(pool) >= Cardinality(ResolverNames) - 1}

\* The names vp_get_models_for_make_year lists; vp_get_models_for_make lists
\* the others.
YearNames == {Series5, Series3, ModelX5, D535}

\* Requested models: the trim, a padded model in lower case, the trim
\* written in two words, and a model without a letter or digit.
SampleModels == {SampleModel, <<" ", "x", "5", " ">>, <<"5", "3", "5", " ", "I">>,
                 <<"-">>}

\* _candidate_models on the inputs of the model, worked out once.
CandidateTable ==
  [model \in SampleModels, pool \in ResolverPools |->
     CandidateModels(SampleMake, model, SampleYear, pool \cap YearNames,
                     pool \ YearNames)]

\* _candidate_models(make, model, year), vPIC listing the names of pool.
CandidateModelsCall(model, pool) ==
  /\ cand' = [called |-> TRUE, model |-> model, pool |-> pool,
              out |-> CandidateTable[model, pool]]
  /\ UNCHANGED <<cacheVars, cop, fetchVars, session, run, enr, conc, srch, freq>>

NextResolver ==
  \E model \in SampleModels, pool \in ResolverPools : CandidateModelsCall(model, pool)

SpecResolver == Init /\ [][NextResolver]_vars

\* The place of a name in the returned list, any case; 0 when it is not there.
PlaceOf(name) ==
  IF \E i \in 1..Len(cand.out) : Lower(cand.out[i]) = Lower(name)
    THEN CHOOSE i \in 1..Len(cand.out) : Lower(cand.out[i]) = Lower(name)
    ELSE 0

\* The place of a name in the returned list; 0 when it is not there.
ExactPlaceOf(name) ==
  IF \E i \in 1..Len(cand.out) : cand.out[i] = name
    THEN CHOOSE i \in 1..Len(cand.out) : cand.out[i] = name
    ELSE 0

\* "535i" was requested and vPIC lists both series.
SeriesExample ==
  /\ cand.called
  /\ Strip(cand.model) = SampleModel
  /\ {Series5, Series3} \subseteq cand.pool

\* C28 as stated: for "535i" and a pool with "5 Series" and "3 Series",
\* "5 Series" scores strictly higher and is returned before "3 Series".
C28_SeriesExampleReturned ==
  SeriesExample =>
    /\ Score(Series5, SampleModel) > Score(Series3, SampleModel)
    /\ ExactPlaceOf(Series5) > 0
    /\ ExactPlaceOf(Series3) > 0
    /\ ExactPlaceOf(Series5) < ExactPlaceOf(Series3)

\* C28: for "535i" and a pool with "5 Series" and "3 Series", "5 Series"
\* scores strictly higher; whenever "3 Series" is returned, "5 Series", in
\* the case of the first listed spelling, is returned before it; and both
\* are returned when the pool has no more names than the list may hold.
C28_SeriesExample ==
  SeriesExample =>
    /\ Score(Series5, SampleModel) > Score(Series3, SampleModel)
    /\ PlaceOf(Series3) > 0 =>
         PlaceOf(Series5) > 0 /\ PlaceOf(Series5) < PlaceOf(Series3)
    /\ Cardinality(cand.pool) <= CandidateCap =>
         PlaceOf(Series5) > 0 /\ PlaceOf(Series3) > 0

\* vPIC lists the two series only, and both come back, "5 Series" first.
C28_Witness ==
  /\ SeriesExample
  /\ cand.pool = {Series5, Series3}
  /\ cand.out = <<Series5, Series3>>

\* The names of the pool that get a place in the ranking: not the requested
\* model in any case, and a score above 0.  Nothing is scored for a model
\* without a letter or digit (lines 151-153).
Ranked ==
  {m \in cand.pool : /\ Normalize(cand.model) # <<>>
                     /\ Lower(m) # Lower(Strip(cand.model))
                     /\ Score(m, Strip(cand.model)) > 0}

\* x stands before y in the order of the ranking: higher score first, equal
\* scores in string order.
RanksBefore(x, y) ==
  Before(<<Score(x, Strip(cand.model)), x>>, <<Score(y, Strip(cand.model)), y>>)

\* C29: the returned list is ordered by non-increasing score, equal scores
\* in string order; no two of its names are equal ignoring case; it has
\* neither the requested model in any case nor a name that scores 0; it has
\* at most 6 names, and a ranked name left out is either a second spelling
\* of a name ranked before it or stands after all of 6 returned names.
C29_CandidateListShape ==
  LET out == cand.out
  IN cand.called =>
       /\ \A i, j \in 1..Len(out) : i < j => RanksBefore(out[i], out[j])
       /\ \A i, j \in 1..Len(out) : i # j => Lower(out[i]) # Lower(out[j])
       /\ \A i \in 1..Len(out) : out[i] \in Ranked
       /\ Len(out) <= CandidateCap
       /\ \A m \in Ranked : ExactPlaceOf(m) = 0 =>
            \/ \E x \in Ranked : Lower(x) = Lower(m) /\ RanksBefore(x, m)
            \/ /\ Len(out) = CandidateCap
               /\ \A i \in 1..Len(out) : RanksBefore(out[i], m)

\* A full list of 6 names came back for "535i" from a pool with two
\* spellings of one name, a name ranked seventh and the model in capitals.
C29_Witness ==
  /\ cand.called
  /\ Len(cand.out) = CandidateCap
  /\ {Series5, Series5Upper, Series3, Upper535, ModelX5} \subseteq cand.pool
  /\ Strip(cand.model) = SampleModel
  /\ ExactPlaceOf(Series5Upper) > 0
  /\ ExactPlaceOf(Series5) = 0
  /\ ExactPlaceOf(Series3) = 0

\* C30: a name equal to the requested model after normalization scores at
\* least as high as every name that is not, and no such name stands before
\* it in the returned list with a lower score.
C30_ExactMatchRanksHighest ==
  cand.called =>
    \A e, o \in {m \in cand.pool : Lower(m) # Lower(Strip(cand.model))} :
      /\ Normalize(e) = Normalize(cand.model)
      /\ Normalize(o) # Normalize(cand.model)
      => /\ Score(e, Strip(cand.model)) >= Score(o, Strip(cand.model))
         /\ ExactPlaceOf(e) > 0 /\ ExactPlaceOf(o) > 0
              /\ ExactPlaceOf(o) < ExactPlaceOf(e)
              => Score(o, Strip(cand.model)) = Score(e, Strip(cand.model))

\* "535-i" came back first for "535i", before the names that only contain
\* the model.
C30_Witness ==
  /\ cand.called
  /\ Strip(cand.model) = SampleModel
  /\ {Dash535, Is535, M535} \subseteq cand.pool
  /\ ExactPlaceOf(Dash535) = 1
  /\ ExactPlaceOf(Is535) = 2

(***************************************************************************)
(* Component frequency (vehicle_defect_mvp/analytics.py, utils.py).  The   *)
(* table is its components column, one value per complaint.  A share is    *)
(* the pair <<count, total>> of the division cnt / total.                  *)
(***************************************************************************)
\* A table has at most MaxComplaints complaints.
MaxComplaints == 3

\* re.split(r"[,\|/]+", components): the text between runs of delimiters.
\* A run at an end leaves an empty part there, as split does.
IsDelimiter(c) == c \in {",", "|", "/"}
RECURSIVE SplitParts(_, _)
SplitParts(s, cur) ==
  IF s = <<>> THEN <<cur>>
  ELSE IF IsDelimiter(Head(s))
    THEN IF Len(s) > 1 /\ IsDelimiter(s[2]) THEN SplitParts(Tail(s), cur)
         ELSE <<cur>> \o SplitParts(Tail(s), <<>>)
  ELSE SplitParts(Tail(s), Append(cur, Head(s)))

\* split_components: nothing for None or "", else the parts stripped, the
\* empty ones dropped, in upper case.
split_components(components) ==
  IF ~Truthy(components) THEN <<>>
  ELSE LET stripped == [i \in 1..Len(SplitParts(components.v, <<>>)) |->
                          Strip(SplitParts(components.v, <<>>)[i])]
           kept == SelectSeq(stripped, LAMBDA part : part # <<>>)
       IN [i \in 1..Len(kept) |-> Upper(kept[i])]

\* counts[comp] = counts.get(comp, 0) + 1, the dict as pairs <<comp, count>>
\* in insertion order.
CountOne(counts, comp) ==
  IF \E i \in 1..Len(counts) : counts[i][1] = comp
    THEN [i \in 1..Len(counts) |->
            IF counts[i][1] = comp THEN <<comp, counts[i][2] + 1>> ELSE counts[i]]
    ELSE Append(counts, <<comp, 1>>)
RECURSIVE CountAll(_, _)
CountAll(comps, counts) ==
  IF comps = <<>> THEN counts
  ELSE CountAll(Tail(comps), CountOne(counts, Head(comps)))
RECURSIVE CountColumn(_, _)
CountColumn(column, counts) ==
  IF column = <<>> THEN counts
  ELSE CountColumn(Tail(column),
                   CountAll(split_components(Head(column)), counts))

\* sum(counts.values())
RECURSIVE SumCounts(_)
SumCounts(counts) ==
  IF counts = <<>> THEN 0 ELSE Head(counts)[2] + SumCounts(Tail(counts))

\* The sort that orders equal counts by name.
RECURSIVE SortedByCount_TiesByName(_)
SortedByCount_TiesByName(counts) ==
  IF counts = <<>> THEN <<>>
  ELSE LET range == {counts[i] : i \in 1..Len(counts)}
           first == CHOOSE x \in range : \A y \in range \ {x} :
                      x[2] > y[2] \/ (x[2] = y[2] /\ StrLess(x[1], y[1]))
       IN <<first>> \o SortedByCount_TiesByName(
                         SelectSeq(counts, LAMBDA x : x # first))

\* sorted(counts.items(), key=lambda x: x[1], reverse=True): stable.
SortedByCount(counts) == SortedByScore(counts, <<>>)

\* component_frequency(complaints_df), column being the components column
\* with None for a missing value.
component_frequency(column) ==
  IF column = <<>> THEN <<>>
  ELSE LET filled == [i \in 1..Len(column) |->
                        IF column[i] = Null THEN PyStr(<<>>) ELSE column[i]]
           counts == CountColumn(filled, <<>>)
           total == SumCounts(counts)
           sorted == SortedByCount(counts)
       IN [i \in 1..Len(sorted) |->
             [component |-> sorted[i][1], count |-> sorted[i][2],
              share |-> IF total # 0 THEN <<sorted[i][2], total>> ELSE <<0, 1>>]]

\* Components values and tables of the model.
Engine == <<"E", "N", "G", "I", "N", "E">>
Brakes == <<"B", "R", "A", "K", "E", "S">>
Fuel == <<"F", "U", "E", "L">>
EngineBrakes == Engine \o <<",">> \o Brakes
BrakesFuel == Brakes \o <<"|">> \o Fuel
FuelEngineLoose ==
  <<" ", "f", "u", "e", "l", "/", " ", "E", "n", "g", "i", "n", "e", ",", ",">>
SampleComponents == {Null, PyStr(EngineBrakes), PyStr(Engine), PyStr(BrakesFuel),
                     PyStr(FuelEngineLoose)}
SampleColumns == UNION {[1..n -> SampleComponents] : n \in 0..MaxComplaints}

\* component_frequency on the tables of the model, worked out once.
FrequencyTable == [column \in SampleColumns |-> component_frequency(column)]

ComponentFrequencyCall(column) ==
  /\ freq' = [called |-> TRUE, components |-> column, rows |-> FrequencyTable[column]]
  /\ UNCHANGED <<cacheVars, cop, fetchVars, session, run, enr, conc, srch, cand>>

NextFrequency == \E column \in SampleColumns : ComponentFrequencyCall(column)

SpecFrequency == Init /\ [][NextFrequency]_vars

\* Every component mentioned in the table, in the order of the mentions.
RECURSIVE MentionsOf(_)
MentionsOf(column) ==
  IF column = <<>> THEN <<>>
  ELSE (IF Head(column) = Null THEN <<>> ELSE split_components(Head(column)))
         \o MentionsOf(Tail(column))

\* How often comp is mentioned, and where first.
MentionCount(comp) ==
  Cardinality({i \in 1..Len(MentionsOf(freq.components)) :
                 MentionsOf(freq.components)[i] = comp})
FirstMention(comp) ==
  CHOOSE i \in 1..Len(MentionsOf(freq.components)) :
    /\ MentionsOf(freq.components)[i] = comp
    /\ \A j \in 1..(i - 1) : MentionsOf(freq.components)[j] # comp

\* The row of the frequency table.
FrequencyRow(comp, count, total) ==
  [component |-> comp, count |-> count, share |-> <<count, total>>]

\* C31: component_frequency splits on comma, pipe and slash, trims and
\* uppercases, and returns one row per distinct component with its number of
\* mentions, ordered by non-increasing count, equal counts in the order of
\* first discovery, the shares being count/total and summing to 1; the three
\* complaints of the example give ENGINE=2, BRAKES=2, FUEL=1.
C31_ComponentFrequency ==
  LET rows == freq.rows
      mentions == MentionsOf(freq.components)
      total == Len(mentions)
  IN freq.called =>
       /\ split_components(PyStr(FuelEngineLoose)) = <<Fuel, Engine>>
       /\ {rows[i].component : i \in 1..Len(rows)}
            = {mentions[i] : i \in 1..Len(mentions)}
       /\ \A i, j \in 1..Len(rows) : i # j => rows[i].component # rows[j].component
       /\ \A i \in 1..Len(rows) :
            /\ rows[i].count = MentionCount(rows[i].component)
            /\ rows[i].share = <<rows[i].count, total>>
       /\ \A i, j \in 1..Len(rows) : i < j =>
            \/ rows[i].count > rows[j].count
            \/ /\ rows[i].count = rows[j].count
               /\ FirstMention(rows[i].component) < FirstMention(rows[j].component)
       /\ rows # <<>> => SumCounts([i \in 1..Len(rows) |->
                                     <<rows[i].component, rows[i].count>>]) = total
       /\ freq.components = <<PyStr(EngineBrakes), PyStr(Engine), PyStr(BrakesFuel)>>
            => rows = <<FrequencyRow(Engine, 2, 5), FrequencyRow(Brakes, 2, 5),
                        FrequencyRow(Fuel, 1, 5)>>

\* The three complaints of the example were counted.
C31_Witness ==
  /\ freq.called
  /\ freq.components = <<PyStr(EngineBrakes), PyStr(Engine), PyStr(BrakesFuel)>>
  /\ Len(freq.rows) = 3
  /\ freq.rows[1].component = Engine

\* An analysis run is under way: its vehicle key is fixed and it has not
\* ended.
RunUnderWay == run.phase \notin {"none", "done"}

\* The vehicle key of the session.
VehicleKey(ss) ==
  <<ss.analysis_vehicle.make, ss.analysis_vehicle.model, ss.analysis_vehicle.year>>

\* C32: from the moment a run has fixed its vehicle key until the run ends,
\* no step changes the make, model or year of the key, a successful
\* fallback to another model name included.
C32_VehicleKeyImmutable ==
  [][RunUnderWay => VehicleKey(session') = VehicleKey(session)]_vars

\* The waits of the schedule: 0.5 s after the first failed attempt, 1 s after
\* the second.
ScheduledWaits == <<TicksPerSecond \div 2, TicksPerSecond>>

\* C33: within one fetch the attempts are one after the other, each later
\* one after the failure of the one before and after its backoff wait; there
\* are at most 3; nothing follows an attempt that succeeded; the waits grow
\* (0.5 s, then 1 s) and stay under the cap of 4 s.
C33_RetrySchedule ==
  /\ [](/\ Len(tries) <= 3
        /\ Len(waits) <= Len(tries)
        /\ Len(waits) >= Len(tries) - 1
        /\ pc = "attempt" => Len(waits) = Len(tries) /\ ret = NoRet
        /\ pc \in {"store", "idle"} /\ tries # <<>> => Len(waits) = Len(tries) - 1
        /\ waits = SubSeq(ScheduledWaits, 1, Len(waits))
        /\ \A i \in 1..Len(waits) :
             /\ waits[i] <= 4 * TicksPerSecond
             /\ i > 1 => waits[i] > waits[i - 1])
  /\ [][/\ Len(tries') > Len(tries) =>
             /\ pc = "attempt"
             /\ Len(tries') = Len(tries) + 1
             /\ Len(waits) = Len(tries)
             /\ now' = now
        /\ Len(waits') > Len(waits) =>
             /\ pc = "wait"
             /\ tries' = tries
             /\ now' = now + waits'[Len(waits')]
        /\ pc \in {"store", "idle"} /\ tries # <<>> /\ tries' # <<>> =>
             tries' = tries]_vars

\* The third attempt of a fetch was answered 200 after two failures and
\* their waits.
C33_Witness ==
  /\ tries = <<503, 503, 200>>
  /\ waits = ScheduledWaits
  /\ ret.kind = "return"
  /\ ret.src = "network"

(***************************************************************************)
(* Detail payloads without a complaint: enrich.py and analytics.py lines   *)
(* 60-104 over answers whose results list or whose first result's          *)
(* complaints list is empty or missing.                                    *)
(***************************************************************************)

MissingResults == Obj(<<>>)
MissingComplaints == Obj(<<<<"results", Arr(<<Obj(<<<<"id", Num(7)>>>>)>>)>>>>)
EmptyComplaints ==
  Obj(<<<<"results", Arr(<<Obj(<<<<"complaints", Arr(<<>>)>>>>)>>)>>>>)
NoComplaintBodies ==
  {MissingResults, EmptyResults, MissingComplaints, EmptyComplaints}

\* The answers to the attempts of one detail fetch: a 200 at the first
\* attempt with the complaint or with a body that has none.
NoComplaintRuns(odi) ==
  {[i \in 1..StopAfterAttempt |-> [status |-> 200, text |-> JsonDumps(b)]] :
     b \in NoComplaintBodies \cup {DetailBody(odi)}}

NoComplaintTables ==
  {TableOf(<<Num(1), Num(2)>>), TableOf(<<Num(2), Num(2)>>)}

NextNoComplaint ==
  \/ \E t \in NoComplaintTables, w \in 1..MaxWorkers : EnrichCall(t, 2, w)
  \/ \E k \in 1..Len(enr.tasks) : TaskBegin(k)
  \/ \E k \in 1..Len(enr.tasks) :
       \E a \in NoComplaintRuns(enr.tasks[k].odi) : TaskFetched(k, a)
  \/ \E k \in 1..Len(enr.tasks) : TaskStore(k)
  \/ \E k \in 1..Len(enr.tasks) : CollectTask(k)
  \/ EnrichReturn

SpecNoComplaint == Init /\ [][NextNoComplaint]_vars

\* The payload has no results list or an empty one, or its first result has
\* no complaints list or an empty one.
HasNoComplaint(payload) ==
  /\ payload.t = "obj"
  /\ LET results == DictGet(payload, "results", Null)
     IN \/ results = Null
        \/ results = Arr(<<>>)
        \/ /\ results.t = "arr"
           /\ results.v # <<>>
           /\ results.v[1].t = "obj"
           /\ DictGet(results.v[1], "complaints", Null) \in {Null, Arr(<<>>)}

\* Task k has fetched or read a payload without a complaint.
EmptyDetail(k) ==
  /\ enr.tasks[k].st = "done"
  /\ enr.tasks[k].out.kind = "return"
  /\ HasNoComplaint(enr.tasks[k].payload)

\* The tasks collected so far that ended without a row.
FailedSoFar ==
  {j \in 1..Len(enr.collected) : ~Succeeded(enr.collected[j])}

\* C34: a detail payload whose results list is empty or missing, or whose
\* first result has an empty or missing complaints list, gives the empty
\* record; the task of that id is counted under failed when it is collected
\* and puts nothing under its id into the results; in the returned table a
\* row whose id got only such payloads has nulls in every column the
\* enrichment added.
C34_EmptyDetailFails ==
  /\ \A b \in NoComplaintBodies :
       HasNoComplaint(b) /\ EnrichRow(b) = Return(Obj(<<>>))
  /\ \A k \in 1..Len(enr.tasks) :
       EmptyDetail(k) =>
         /\ enr.tasks[k].out = Return(Obj(<<>>))
         /\ ~Succeeded(k)
  /\ enr.failed = Cardinality(FailedSoFar)
  /\ \A r \in 1..Len(enr.results) :
       \E k \in 1..Len(enr.tasks) :
         /\ InSeq(k, enr.collected)
         /\ Succeeded(k)
         /\ enr.tasks[k].odi = enr.results[r][1]
  /\ Returned /\ enr.tasks # <<>> =>
       /\ enr.out.stats.failed = Cardinality({k \in 1..Len(enr.tasks) : ~Succeeded(k)})
       /\ enr.out.stats.enriched = Len(enr.results)
       /\ \A k \in 1..Len(enr.tasks) :
            /\ EmptyDetail(k)
            /\ \A j \in 1..Len(enr.tasks) :
                 enr.tasks[j].odi = enr.tasks[k].odi => EmptyDetail(j)
            => /\ \A r \in 1..Len(enr.results) :
                    enr.results[r][1] # enr.tasks[k].odi
               /\ \A i \in 1..Len(enr.table) :
                    DictGet(enr.table[i], "odiNumber", Null) = Num(enr.tasks[k].odi)
                      => NotEnriched(i)

\* Of two tasks the first got a first result without complaints and the
\* second got the complaint: the call has returned with one failed, one
\* enriched, the first row without values and the second with them.
C34_Witness ==
  /\ Returned
  /\ Len(enr.tasks) = 2
  /\ enr.tasks[1].payload = EmptyComplaints
  /\ EmptyDetail(1)
  /\ Succeeded(2)
  /\ enr.out.stats = Stats(2, 1, 1)
  /\ NotEnriched(1)
  /\ ~NotEnriched(2)

(***************************************************************************)
(* The counters of enrich_complaints_df, checked under SpecEnrich.         *)
(***************************************************************************)

\* C35: for every table, cap, outcome of the fetches and order of
\* collection, the counters of a call that has returned satisfy
\* enriched + failed = requested, and enriched is the number of dispatched
\* fetches that returned a record that is not empty.
C35_CounterConservation ==
  Returned =>
    /\ enr.out.stats.enriched + enr.out.stats.failed = enr.out.stats.requested
    /\ enr.out.stats.enriched
         = Cardinality({k \in 1..Len(enr.tasks) : Succeeded(k)})

(***************************************************************************)
(* A fetch that fails after a cache miss, checked under Spec.              *)
(***************************************************************************)

\* A get_json with a cache has ended with the exception of the request.
FailedFetch == Idle /\ call.cache /\ ret.src = "error"

\* The file of the call's url is the one written by the last set before the
\* call began, or there is none if there was no set.
EntryAsBefore ==
  /\ LastSetOf(call.url) = call.entry
  /\ IF call.entry = NoSet
       THEN PathForKey(call.url) \notin DOMAIN files
       ELSE /\ PathForKey(call.url) \in DOMAIN files
            /\ files[PathForKey(call.url)]
                 = JsonDumps(Obj(<<<<"_fetched_at", Num(call.entry.at)>>,
                                   <<"data", call.entry.value>>>>))

EnrichLimit == 120

\* recalls_to_df: one row for each recall, its keys the columns.
recalls_to_df(recalls) == recalls.v

\* df[col].fillna(False).astype(bool) on the value of one row
AsBool(x) == IF x = Null THEN Bool(FALSE) ELSE Bool(Truthy(x))

\* complaints_to_df for complaints without products, injury counts and
\* dates: one row for each complaint, "crash" and "fire" made booleans.
complaints_to_df(complaints) ==
  [i \in 1..Len(complaints.v) |->
     Obj([c \in 1..Len(complaints.v[i].v) |->
            IF complaints.v[i].v[c][1] \in {"crash", "fire"}
              THEN <<complaints.v[i].v[c][1], AsBool(complaints.v[i].v[c][2])>>
              ELSE complaints.v[i].v[c]])]

\* get_json of one detail fetch: the cached payload, or the return or the
\* raise of the request answered by `answers`.
DetailOutcome(cached, answers) ==
  IF cached # Null THEN Return(cached) ELSE HttpGetJson(answers, 1, lib)

\* _fetch_one after get_json: the record of the payload, or the exception.
RowOf(o) == IF o.kind = "return" THEN EnrichRow(o.val) ELSE o

\* Lines 45-53 for one task, on the results and the counter of acc.
Gathered(acc, odi, row) ==
  Gather([tasks |-> <<[odi |-> odi]>>, collected |-> <<>>,
          results |-> acc.results, failed |-> acc.failed], 1, row)

\* The cache, the results and the counter after one detail fetch: the
\* payload is written when it came from the network.
AfterFetch(acc, odi, stored, o, g) ==
  [files |-> IF stored THEN CacheSet(acc.files, now, DetailUrl(odi), o.val)
             ELSE acc.files,
   lastSet |-> IF stored
                 THEN (DetailUrl(odi) :> [at |-> now, value |-> o.val]) @@ acc.lastSet
                 ELSE acc.lastSet,
   results |-> g.results,
   failed |-> g.failed]

FetchedOne(acc, odi, missed, o) ==
  AfterFetch(acc, odi, missed /\ o.kind = "return", o, Gathered(acc, odi, RowOf(o)))

\* One detail fetch: the cache is read, and the network asked on a miss.
FetchOne(acc, odi, cached, answers) ==
  FetchedOne(acc, odi, cached = Null, DetailOutcome(cached, answers))

\* The detail fetches for the ids from number k on, every one answered by
\* `answers`: acc holds the cache, the results and the failed counter.
RECURSIVE FetchDetails(_, _, _, _)
FetchDetails(acc, odi_numbers, k, answers) ==
  IF k > Len(odi_numbers) THEN acc
  ELSE FetchDetails(
         FetchOne(acc, odi_numbers[k],
                  CacheGet(acc.files, now, DetailUrl(odi_numbers[k]),
                           Num(DetailTtlSeconds)),
                  answers),
         odi_numbers, k + 1, answers)

\* Lines 55-71: the merged table and the counters, with the cache as the
\* fetches left it.
EnrichReturned(table, odi_numbers, acc) ==
  [df |-> Merged(table, acc.results),
   stats |-> Stats(Len(odi_numbers), Len(acc.results), acc.failed),
   files |-> acc.files, lastSet |-> acc.lastSet]

EnrichFetched(table, odi_numbers, answers) ==
  EnrichReturned(table, odi_numbers,
                 FetchDetails([files |-> files, lastSet |-> lastSet,
                               results |-> <<>>, failed |-> 0],
                              odi_numbers, 1, answers))

\* enrich_complaints_df called by the run: the table, the counters and the
\* cache after it.
EnrichForRun(table, max_records, answers) ==
  IF table = <<>> \/ ~InSeq("odiNumber", Columns(table, <<>>))
    THEN [df |-> table, stats |-> Stats(0, 0, 0), files |-> files, lastSet |-> lastSet]
    ELSE EnrichFetched(table, OdiNumbers(table, max_records), answers)

\* Lines 622-624, with the cache as the enrichment left it.
StoreEnriched(recalls_df, e) ==
  /\ session' = [session EXCEPT !.analysis_recalls_df = recalls_df,
                                !.analysis_complaints_df = e.df,
                                !.analysis_enrich_stats = e.stats]
  /\ files' = e.files
  /\ lastSet' = e.lastSet

\* Lines 609-624: the tables are built, the complaints enriched, and the
\* tables and the counters stored.
StoreTables(answers) ==
  /\ run.phase = "tables"
  /\ Idle
  /\ StoreEnriched(recalls_to_df(run.recalls),
                   EnrichForRun(complaints_to_df(run.complaints), EnrichLimit, answers))
  /\ run' = [run EXCEPT !.phase = "done"]
  /\ UNCHANGED <<now, cop, fetchVars, enr, conc, srch, cand, freq>>

NextAnalysis ==
  \/ \E make \in {<<>>, SampleMake}, my \in SamplePools, ma \in SamplePools :
       AnalyzeClick(make, SampleModel, SampleYear, my, ma)
  \/ TrialRecalls
  \/ RecallsDone
  \/ TrialComplaints
  \/ ComplaintsDone
  \/ Conclude
  \/ \E a \in DetailRuns(1) : StoreTables(a)
  \/ \E r \in AnalysisResponses : HttpAttempt(r)
  \/ Backoff
  \/ GetJsonStore

SpecAnalysis == Init /\ [][NextAnalysis]_vars

(***************************************************************************)
(* Claims about what the session holds after a run, checked under          *)
(* SpecAnalysis.                                                           *)
(***************************************************************************)

ErrorSet == session.analysis_error # NoError

\* The tables, the raw lists and the counters are those of no run.
DataCleared ==
  /\ session.analysis_recalls_df = <<>>
  /\ session.analysis_complaints_df = <<>>
  /\ session.analysis_raw_recalls = Arr(<<>>)
  /\ session.analysis_raw_complaints = Arr(<<>>)
  /\ session.analysis_enrich_stats = Stats(0, 0, 0)

\* The run that is over has failed: its input was incomplete, a fetch of it
\* raised, or no model it tried had data.
RunFailed ==
  /\ run.phase = "done"
  /\ \/ session.analysis_vehicle.make = <<>>
     \/ \E k \in 1..Len(run.log) : run.log[k].exc # ""
     \/ ~Truthy(run.recalls) /\ ~Truthy(run.complaints)

RerunTables == {TableOf(<<Num(1), Num(2)>>), TableOf(<<Num(2), Num(2)>>)}
RerunCaps == {1, 2}

\* Lines 31-43 for the table, the cap and the workers of the call that has
\* returned; the tables of RerunTables have the id column.
EnrichAgain ==
  /\ enr.phase = "returned"
  /\ enr.n < MaxBatches
  /\ enr.table # <<>> /\ InSeq("odiNumber", Columns(enr.table, <<>>))
  /\ LET odi_numbers == OdiNumbers(enr.table, enr.max_records)
     IN enr' = [NoEnr EXCEPT
                  !.phase = "running", !.n = enr.n + 1,
                  !.table = enr.table,
                  !.max_records = enr.max_records,
                  !.max_workers = enr.max_workers,
                  !.odi_numbers = odi_numbers,
                  !.tasks = [i \in 1..Len(odi_numbers) |->
                               [odi |-> odi_numbers[i], st |-> "queued",
                                payload |-> Null, out |-> NoOutcome]],
                  !.first = [tasks |-> enr.tasks, out |-> enr.out]]
  /\ UNCHANGED <<cacheVars, cop, fetchVars, session, run, conc, srch, cand, freq>>

NextRerun ==
  \/ /\ enr.n = 0
     /\ \E t \in RerunTables, c \in RerunCaps, w \in 1..MaxWorkers : EnrichCall(t, c, w)
  \/ EnrichAgain
  \/ \E k \in 1..Len(enr.tasks) : TaskBegin(k)
  \/ \E k \in 1..Len(enr.tasks) :
       \E a \in DetailRuns(enr.tasks[k].odi) : TaskFetched(k, a)
  \/ \E k \in 1..Len(enr.tasks) : TaskStore(k)
  \/ \E k \in 1..Len(enr.tasks) : CollectTask(k)
  \/ EnrichReturn
  \/ Tick

SpecRerun == Init /\ [][NextRerun]_vars

\* The second call is under way or has returned.
SecondCall == enr.first # <<>>

\* In the first call the request of task k returned: the task ended with a
\* record, or with the exception enrich_complaint_from_safety_issue raises
\* on a payload that is not an object.
FetchReturned(k) ==
  \/ enr.first.tasks[k].out.kind = "return"
  \/ enr.first.tasks[k].out.exc \in {"AttributeError", "TypeError"}

\* In the first call the request of task k returned a payload other than
\* null.
FetchReturnedData(k) == enr.first.tasks[k].payload # Null

\* Task k of the second call is at the network or comes from it.
AtNetwork(k) == enr.tasks[k].st \in {"network", "store"}

DataForId(odi) ==
  /\ \E j \in 1..Len(enr.first.tasks) : enr.first.tasks[j].odi = odi
  /\ \A j \in 1..Len(enr.first.tasks) :
       enr.first.tasks[j].odi = odi => FetchReturnedData(j)

RunSucceeded == run.phase = "done" /\ ~ErrorSet

\* The results list the cache holds for a per-vehicle url.
CachedResults(url) ==
  ResultsOf(CacheGet(files, now, url, Num(VehicleTtlSeconds))).val

\* C39: a run that ends without the analysis error set has stored raw lists
\* of which at least one is not empty, and both are what the two endpoints
\* returned for one model, the model the loop stopped on, which is the
\* model of the vehicle the session names; no run ends without an error and
\* with both lists empty.
C39_SuccessHasData ==
  RunSucceeded =>
    /\ Truthy(session.analysis_raw_recalls) \/ Truthy(session.analysis_raw_complaints)
    /\ run.used_model = run.tried_models[run.i]
    /\ session.analysis_vehicle.model = run.used_model
    /\ LET v == session.analysis_vehicle
           n == Len(run.log)
       IN /\ n >= 2
          /\ run.log[n - 1] = [fn |-> "recalls", model |-> run.used_model, done |-> TRUE,
                               data |-> Truthy(session.analysis_raw_recalls), exc |-> ""]
          /\ run.log[n] = [fn |-> "complaints", model |-> run.used_model, done |-> TRUE,
                           data |-> Truthy(session.analysis_raw_complaints), exc |-> ""]
          /\ session.analysis_raw_recalls
               = CachedResults(RecallsUrl(v.make, run.used_model, v.year))
          /\ session.analysis_raw_complaints
               = CachedResults(ComplaintsUrl(v.make, run.used_model, v.year))

\* A run has ended without an error on a fallback model: the requested
\* model had nothing, the fallback model has complaints and no recalls.
C39_Witness ==
  /\ RunSucceeded
  /\ run.i > 1
  /\ run.used_model # run.requested
  /\ session.analysis_raw_recalls = Arr(<<>>)
  /\ Truthy(session.analysis_raw_complaints)
  /\ session.analysis_enrich_stats.requested = 1

====
